---- MODULE Spec2Model ----
(***************************************************************************)
(* Verification model of the ledger service (tinoosan/ledger):             *)
(*   - journal service: ValidateEntry, CreateEntry, ReverseEntry,          *)
(*     Reclassify, AccountBalance over the in-memory Store;                *)
(*   - account service: ValidateCreate, EnsureOpeningBalanceAccount,       *)
(*     Create, EnsureAccountsBatch;                                        *)
(*   - batch HTTP handlers with the request-level idempotency cache.       *)
(***************************************************************************)
EXTENDS Integers, Sequences, FiniteSets, TLC

\* ------------------------------------------------------------------------
\* Bounds of the model
\* ------------------------------------------------------------------------
\* most journal entries ever persisted in one behaviour
MaxEntries == 4
\* most lines of one draft entry
MaxLines == 3
\* width of the machine integer that stands for Go's int64 (scaled down)
IntBits == 3

\* ------------------------------------------------------------------------
\* Value domains
\* ------------------------------------------------------------------------
NilUUID == "nil"
\* uuid.Nil among the entry identifiers
NilEntryID == 0
Users == {"u1", "u2"}
Dates == {1, 2}
SideDebit == "debit"
SideCredit == "credit"
KnownCurrencies == {"USD", "GBP"}
EntryIDs == 1..MaxEntries

RECURSIVE Pow2(_)
Pow2(n) == IF n = 0 THEN 1 ELSE 2 * Pow2(n - 1)

\* largest value of the machine integer
MaxInt == Pow2(IntBits - 1) - 1

\* two's-complement wrap-around of Go's signed integer addition
WrapInt(n) == ((n + Pow2(IntBits - 1)) % Pow2(IntBits)) - Pow2(IntBits - 1)

\* strings.ToUpper on the currency codes the model uses
ToUpper(s) ==
    CASE s = "usd" -> "USD"
      [] s = "gbp" -> "GBP"
      [] OTHER -> s

\* money.NewAmountFromMinorUnits: an unknown currency code is an error and the
\* callers keep the zero Amount
ZeroAmount == [Curr |-> "XXX", Units |-> 0]
NewAmountFromMinorUnits(curr, units) ==
    IF curr \in KnownCurrencies THEN [Curr |-> curr, Units |-> units] ELSE ZeroAmount
MinorUnits(amount) == amount.Units

\* ------------------------------------------------------------------------
\* State
\* ------------------------------------------------------------------------
VARIABLES
    accountsByID,       \* memory.Store.accountsByID: account id -> Account
    entriesByID,        \* memory.Store.entriesByID: entry id -> JournalEntry
    entryIndexByUser,   \* memory.Store.entryIndexByUser: user -> keys sorted by (Date, ID)
    batchIdem,          \* Server.batchIdem: Idempotency-Key -> storedBatch
    idempotencyByUser,  \* memory.Store.idempotencyByUser: user -> key -> entry id
    requests            \* batch requests received so far, each with its position
                        \* in the handler and the response written to it; for the
                        \* endpoints served in one step, the request served last

vars == <<accountsByID, entriesByID, entryIndexByUser, batchIdem, idempotencyByUser,
          requests>>

\* accounts seeded before the server starts (cmd/main.go, tests' setup)
SeedAccounts ==
    [id \in {"a1", "a2", "a3"} |->
        CASE id = "a1" -> [ID |-> "a1", UserID |-> "u1", Name |-> "Cash", Currency |-> "USD",
                           Type |-> "asset", Group |-> "cash", Vendor |-> "Wallet",
                           System |-> FALSE, Active |-> TRUE]
          [] id = "a2" -> [ID |-> "a2", UserID |-> "u1", Name |-> "Income", Currency |-> "USD",
                           Type |-> "revenue", Group |-> "salary", Vendor |-> "Employer",
                           System |-> FALSE, Active |-> TRUE]
          [] id = "a3" -> [ID |-> "a3", UserID |-> "u2", Name |-> "Cash", Currency |-> "GBP",
                           Type |-> "asset", Group |-> "cash", Vendor |-> "Wallet",
                           System |-> FALSE, Active |-> TRUE]]

\* memory.New followed by the seeding of main/setup
Init ==
    /\ accountsByID = SeedAccounts
    /\ entriesByID = << >>
    /\ entryIndexByUser = [u \in Users |-> << >>]
    /\ batchIdem = << >>
    /\ idempotencyByUser = [u \in Users |-> << >>]
    /\ requests = {}

\* ------------------------------------------------------------------------
\* memory.Store
\* ------------------------------------------------------------------------
\* store value threaded through the service operators
TheStore == [entries |-> entriesByID, index |-> entryIndexByUser]

\* position found by sort.Search: the first key that sorts after k, else len(keys)
SearchIndex(keys, k) ==
    LET after(i) == \/ keys[i].Date > k.Date
                    \/ keys[i].Date = k.Date /\ keys[i].ID > k.ID
        hits == {i \in 1..Len(keys) : after(i)}
    IN  IF hits = {} THEN Len(keys) + 1
        ELSE CHOOSE i \in hits : \A j \in hits : i <= j

insertEntryIndexLocked(keys, k) ==
    LET i == SearchIndex(keys, k)
    IN  [j \in 1..(Len(keys) + 1) |->
            IF j < i THEN keys[j] ELSE IF j = i THEN k ELSE keys[j - 1]]

\* Store.CreateJournalEntry
CreateJournalEntry(st, e) ==
    [entries |-> [id \in DOMAIN st.entries \cup {e.ID} |->
                     IF id = e.ID THEN e ELSE st.entries[id]],
     index |-> [st.index EXCEPT ![e.UserID] =
                     insertEntryIndexLocked(@, [Date |-> e.Date, ID |-> e.ID])]]

\* Store.GetEntry: found only if it exists and belongs to the user
GetEntryFound(st, userID, entryID) ==
    entryID \in DOMAIN st.entries /\ st.entries[entryID].UserID = userID

\* Store.EntriesByUserID: the user's entries in index order
EntriesByUserID(st, userID) ==
    [i \in 1..Len(st.index[userID]) |-> st.entries[st.index[userID][i].ID]]

\* Store.AccountsByIDs: the requested accounts that exist and belong to the user
AccountsByIDs(accts, userID, ids) ==
    {id \in ids : id \in DOMAIN accts /\ accts[id].UserID = userID}

\* ResolveEntryByIdempotencyKey as it would be if no key were ever found
ResolveNothing(idem, entries, userID, key) == [found |-> FALSE, id |-> NilEntryID]

\* ResolveEntryByIdempotencyKey / GetEntryByIdempotencyKey: [found, id]
ResolveEntryByIdempotencyKey(idem, entries, userID, key) ==
    IF userID \in DOMAIN idem /\ key \in DOMAIN idem[userID]
       /\ idem[userID][key] \in DOMAIN entries
    THEN [found |-> TRUE, id |-> idem[userID][key]]
    ELSE [found |-> FALSE, id |-> NilEntryID]

\* SaveEntryIdempotencyKey / SaveIdempotencyKey: the key is set only if absent
SaveEntryIdempotencyKey(idem, userID, key, entryID) ==
    IF key \in DOMAIN idem[userID] THEN idem
    ELSE [idem EXCEPT ![userID] =
             [k \in DOMAIN idem[userID] \cup {key} |->
                 IF k = key THEN entryID ELSE idem[userID][k]]]

\* uuid.New: an identifier no persisted entry carries; identifiers are opaque
\* and the model hands them out in increasing order
NewEntryID(used) == CHOOSE id \in EntryIDs \ used : \A other \in EntryIDs \ used : id <= other

\* ------------------------------------------------------------------------
\* journal service
\* ------------------------------------------------------------------------
RECURSIVE SumLoop(_, _, _, _)
\* first loop of ValidateEntry: per-line checks and the int64 accumulation
SumLoop(lines, i, sumDebits, sumCredits) ==
    IF i > Len(lines)
    THEN [err |-> "", sumDebits |-> sumDebits, sumCredits |-> sumCredits]
    ELSE LET line == lines[i]
             units == MinorUnits(line.Amount)
         IN  IF line.AccountID = NilUUID
             THEN [err |-> "account_id required", sumDebits |-> 0, sumCredits |-> 0]
             ELSE IF units <= 0
             THEN [err |-> "amount must be > 0", sumDebits |-> 0, sumCredits |-> 0]
             ELSE IF line.Side = SideDebit
             THEN SumLoop(lines, i + 1, WrapInt(sumDebits + units), sumCredits)
             ELSE IF line.Side = SideCredit
             THEN SumLoop(lines, i + 1, sumDebits, WrapInt(sumCredits + units))
             ELSE [err |-> "side must be debit or credit", sumDebits |-> 0, sumCredits |-> 0]

\* ValidateEntry as it would be without the account lookup and the checks on
\* the resolved accounts
ValidateEntryNoAccounts(accts, entry) ==
    IF entry.UserID = NilUUID THEN "invalid"
    ELSE IF entry.Currency = "" THEN "invalid"
    ELSE IF Len(entry.Lines) < 2 THEN "at least 2 lines"
    ELSE LET s == SumLoop(entry.Lines, 1, 0, 0)
         IN  IF s.err # "" THEN s.err
             ELSE IF s.sumDebits # s.sumCredits THEN "sum(debits) must equal sum(credits)"
             ELSE ""

\* ValidateEntry as it would be without the currency check
ValidateEntryNoCurrency(accts, entry) ==
    IF entry.UserID = NilUUID THEN "invalid"
    ELSE IF entry.Currency = "" THEN "invalid"
    ELSE IF Len(entry.Lines) < 2 THEN "at least 2 lines"
    ELSE LET s == SumLoop(entry.Lines, 1, 0, 0)
             ids == {entry.Lines[i].AccountID : i \in 1..Len(entry.Lines)}
             accMap == AccountsByIDs(accts, entry.UserID, ids)
         IN  IF s.err # "" THEN s.err
             ELSE IF s.sumDebits # s.sumCredits THEN "sum(debits) must equal sum(credits)"
             ELSE IF Cardinality(accMap) # Cardinality(ids)
             THEN "unknown or unauthorized accounts"
             ELSE ""

\* "" stands for a nil error
ValidateEntry(accts, entry) ==
    IF entry.UserID = NilUUID THEN "invalid"
    ELSE IF entry.Currency = "" THEN "invalid"
    ELSE IF Len(entry.Lines) < 2 THEN "at least 2 lines"
    ELSE LET s == SumLoop(entry.Lines, 1, 0, 0)
             ids == {entry.Lines[i].AccountID : i \in 1..Len(entry.Lines)}
             accMap == AccountsByIDs(accts, entry.UserID, ids)
         IN  IF s.err # "" THEN s.err
             ELSE IF s.sumDebits # s.sumCredits THEN "sum(debits) must equal sum(credits)"
             ELSE IF Cardinality(accMap) # Cardinality(ids)
             THEN "unknown or unauthorized accounts"
             ELSE IF \E id \in ids : accts[id].UserID # entry.UserID
             THEN "account does not belong to user"
             ELSE IF \E id \in ids : accts[id].Currency # entry.Currency
             THEN "account currency mismatch"
             ELSE ""

\* the entry CreateEntry builds: a fresh id, the draft's header and lines, nothing else
CreateEntry(st, entry, entryID) ==
    CreateJournalEntry(st,
        [ID |-> entryID, UserID |-> entry.UserID, Date |-> entry.Date,
         Currency |-> entry.Currency, Memo |-> entry.Memo, IsReversed |-> FALSE,
         Lines |-> entry.Lines])

FlipSide(side) == IF side = SideDebit THEN SideCredit ELSE SideDebit

\* the entry ReverseEntry builds from the original
ReversalOf(orig, rid, userID, date) ==
    [ID |-> rid, UserID |-> userID, Date |-> date, Currency |-> orig.Currency,
     Memo |-> <<"reversal of", orig.ID>> \o orig.Memo, IsReversed |-> FALSE,
     Lines |-> [i \in 1..Len(orig.Lines) |->
                   [orig.Lines[i] EXCEPT !.Side = FlipSide(orig.Lines[i].Side)]]]

\* ReverseEntry as it would be if it flipped the lines of the original in place
ReverseEntryInPlace(st, userID, entryID, date, rid) ==
    IF userID = NilUUID \/ entryID = NilEntryID THEN [st |-> st, err |-> "invalid"]
    ELSE IF ~GetEntryFound(st, userID, entryID) THEN [st |-> st, err |-> "not_found"]
    ELSE [st |-> [CreateJournalEntry(st, ReversalOf(st.entries[entryID], rid, userID, date))
                     EXCEPT !.entries[entryID].Lines =
                                ReversalOf(st.entries[entryID], rid, userID, date).Lines,
                            !.entries[entryID].IsReversed = TRUE],
          err |-> ""]

\* ReverseEntry: [st, err]; rid is the id uuid.New returns
ReverseEntry(st, userID, entryID, date, rid) ==
    IF userID = NilUUID \/ entryID = NilEntryID THEN [st |-> st, err |-> "invalid"]
    ELSE IF ~GetEntryFound(st, userID, entryID) THEN [st |-> st, err |-> "not_found"]
    ELSE [st |-> CreateJournalEntry(st, ReversalOf(st.entries[entryID], rid, userID, date)),
          err |-> ""]

\* Reclassify: [st, err, created]; rid and cid are the ids of the reversing and
\* the correcting entry
Reclassify(st, accts, userID, entryID, date, memo, newLines, rid, cid) ==
    IF userID = NilUUID \/ entryID = NilEntryID
    THEN [st |-> st, err |-> "invalid", created |-> {}]
    ELSE IF ~GetEntryFound(st, userID, entryID)
    THEN [st |-> st, err |-> "not_found", created |-> {}]
    ELSE LET orig == st.entries[entryID]
             rev == ReverseEntry(st, userID, entryID, date, rid)
             e == [UserID |-> userID, Date |-> date, Currency |-> orig.Currency,
                   Memo |-> IF memo = << >> THEN <<"reclassify of", orig.ID>> ELSE memo,
                   Lines |-> newLines]
             verr == ValidateEntry(accts, e)
         IN  IF rev.err # "" THEN [st |-> st, err |-> rev.err, created |-> {}]
             ELSE IF verr # "" THEN [st |-> rev.st, err |-> verr, created |-> {rid}]
             ELSE [st |-> CreateEntry(rev.st, e, cid), err |-> "", created |-> {rid, cid}]

\* lines of the entries, in listing order, that touch accountID
RECURSIVE MatchingLines(_, _, _)
MatchingLines(entries, i, accountID) ==
    IF i > Len(entries) THEN << >>
    ELSE SelectSeq(entries[i].Lines, LAMBDA ln : ln.AccountID = accountID)
            \o MatchingLines(entries, i + 1, accountID)

\* second loop of AccountBalance: Add for a debit, Sub for a credit; an Add or
\* Sub that fails (amounts of different currencies) leaves net as it was
RECURSIVE NetLoop(_, _, _)
NetLoop(lines, i, net) ==
    IF i > Len(lines) THEN net
    ELSE LET ln == lines[i]
         IN  IF ln.Amount.Curr # net.Curr THEN NetLoop(lines, i + 1, net)
             ELSE IF ln.Side = SideDebit
             THEN NetLoop(lines, i + 1, [net EXCEPT !.Units = @ + ln.Amount.Units])
             ELSE IF ln.Side = SideCredit
             THEN NetLoop(lines, i + 1, [net EXCEPT !.Units = @ - ln.Amount.Units])
             ELSE NetLoop(lines, i + 1, net)

\* AccountBalance with asOf = nil: currency of the first matching line, else USD
AccountBalance(st, userID, accountID) ==
    LET lines == MatchingLines(EntriesByUserID(st, userID), 1, accountID)
        curr == IF Len(lines) > 0 THEN lines[1].Amount.Curr ELSE "USD"
    IN  NetLoop(lines, 1, NewAmountFromMinorUnits(curr, 0))

\* ------------------------------------------------------------------------
\* strings of the account model
\* ------------------------------------------------------------------------
\* strings.ToLower on the strings the model uses
ToLower(s) ==
    CASE s = "USD" -> "usd"
      [] s = "GBP" -> "gbp"
      [] s = "Pocket" -> "pocket"
      [] s = " Pocket " -> " pocket "
      [] s = "Bank" -> "bank"
      [] s = "Wallet" -> "wallet"
      [] s = "Employer" -> "employer"
      [] s = "System" -> "system"
      [] OTHER -> s

\* strings.TrimSpace on the strings the model uses
TrimSpace(s) ==
    CASE s = " Pocket " -> "Pocket"
      [] s = " pocket " -> "pocket"
      [] OTHER -> s

EqualFold(a, b) == ToLower(a) = ToLower(b)

\* slug.IsSlug: ^[a-z0-9_]{2,40}$ on the strings the model uses
IsSlug(s) == s \in {"cash", "salary", "opening_balances", "usd", "gbp", "pocket", "bank",
                    "wallet", "employer", "system"}

\* slug.Slugify: lower-case, other runes to '_', outer '_' trimmed
Slugify(s) == IF s = "" THEN s ELSE TrimSpace(ToLower(s))

AccountTypes == {"asset", "liability", "equity", "revenue", "expense"}

\* ------------------------------------------------------------------------
\* account service
\* ------------------------------------------------------------------------
\* identifiers uuid.New hands to new accounts, in the order the model uses them
AccountPool == <<"n1", "n2", "n3", "n4", "n5", "n6">>

NewAccountID(accts) ==
    AccountPool[CHOOSE i \in 1..Len(AccountPool) :
                   /\ AccountPool[i] \notin DOMAIN accts
                   /\ \A j \in 1..(i - 1) : AccountPool[j] \in DOMAIN accts]

\* Repo.ListAccounts / Store.AccountsByUserID
ListAccounts(accts, userID) == {accts[id] : id \in {x \in DOMAIN accts : accts[x].UserID = userID}}

\* Writer.CreateAccount, the n-th write of an operation; the write numbered
\* failAt returns the storage error (the postgres Store returns the driver's
\* error, the memory Store has none to return and is the case failAt = 0)
WriterCreateAccount(accts, a, n, failAt) ==
    IF n = failAt
    THEN [accts |-> accts, err |-> "write failed"]
    ELSE [accts |-> [id \in DOMAIN accts \cup {a.ID} |-> IF id = a.ID THEN a ELSE accts[id]],
          err |-> ""]

\* normalizedPathString: the path as a tuple of its colon-separated parts
normalizedPathString(a) ==
    IF a.Type = "equity" /\ EqualFold(a.Group, "opening_balances")
    THEN <<"equity", "opening_balances">>
    ELSE <<ToLower(a.Type), ToLower(a.Group), Slugify(a.Vendor)>>

\* ValidateCreate; "" stands for a nil error
ValidateCreate(account) ==
    LET currency == IF account.Currency # "" THEN ToUpper(account.Currency) ELSE ""
    IN  IF account.UserID = NilUUID THEN "invalid"
        ELSE IF account.Name = "" THEN "name is required"
        ELSE IF currency = "" THEN "currency is required"
        ELSE IF account.Group = "" THEN "group is required"
        ELSE IF ~IsSlug(ToLower(account.Group)) THEN "invalid group slug"
        ELSE IF account.Vendor = "" THEN "vendor is required"
        ELSE IF account.Type \notin AccountTypes THEN "invalid account type"
        ELSE IF account.System \/ EqualFold(account.Group, "opening_balances")
        THEN IF account.Type # "equity" THEN "opening balances must be equity type"
             ELSE IF ~EqualFold(account.Group, "opening_balances")
             THEN "invalid system account group; expected opening_balances"
             ELSE ""
        ELSE ""

\* EnsureOpeningBalanceAccount as it would be if it never looked for the
\* existing account
EnsureAlwaysCreates(accts, userID, currencyIn, writes, failAt) ==
    LET a == [ID |-> NewAccountID(accts), UserID |-> userID, Name |-> "Opening Balances",
              Currency |-> ToUpper(currencyIn), Type |-> "equity",
              Group |-> "opening_balances", Vendor |-> "System", System |-> TRUE,
              Active |-> TRUE]
        w == WriterCreateAccount(accts, a, writes + 1, failAt)
    IN  IF userID = NilUUID \/ currencyIn = ""
        THEN [accts |-> accts, err |-> "invalid", writes |-> writes]
        ELSE [accts |-> w.accts, err |-> w.err, writes |-> writes + 1]

\* EnsureOpeningBalanceAccount: [accts, err, writes]; writes counts the
\* Writer.CreateAccount calls made so far by the calling operation
EnsureOpeningBalanceAccount(accts, userID, currencyIn, writes, failAt) ==
    LET currency == ToUpper(currencyIn)
        found == \E a \in ListAccounts(accts, userID) :
                    /\ EqualFold(a.Currency, currency)
                    /\ normalizedPathString(a) = <<"equity", "opening_balances">>
        a == [ID |-> NewAccountID(accts), UserID |-> userID, Name |-> "Opening Balances",
              Currency |-> currency, Type |-> "equity", Group |-> "opening_balances",
              Vendor |-> "System", System |-> TRUE, Active |-> TRUE]
        w == WriterCreateAccount(accts, a, writes + 1, failAt)
    IN  IF userID = NilUUID \/ currencyIn = ""
        THEN [accts |-> accts, err |-> "invalid", writes |-> writes]
        ELSE IF found THEN [accts |-> accts, err |-> "", writes |-> writes]
        ELSE IF ValidateCreate(a) # ""
        THEN [accts |-> accts, err |-> ValidateCreate(a), writes |-> writes]
        ELSE [accts |-> w.accts, err |-> w.err, writes |-> writes + 1]

\* the account Create and the batch's transaction path write
NewAccount(accts, account) ==
    LET ob == account.Type = "equity" /\ EqualFold(account.Group, "opening_balances")
    IN  [ID |-> NewAccountID(accts), UserID |-> account.UserID, Name |-> account.Name,
         Currency |-> account.Currency, Type |-> account.Type, Group |-> account.Group,
         Vendor |-> IF ob THEN "System" ELSE account.Vendor,
         System |-> IF ob THEN TRUE ELSE account.System, Active |-> TRUE]

\* Create: [accts, acc, err, writes]
Create(accts, accountIn, writes, failAt) ==
    LET account == [accountIn EXCEPT
                       !.Currency = IF @ # "" THEN ToUpper(@) ELSE @]
        verr == ValidateCreate(account)
        ob == EnsureOpeningBalanceAccount(accts, account.UserID, account.Currency,
                                          writes, failAt)
        desired == normalizedPathString(account)
        exists == \E a \in ListAccounts(ob.accts, account.UserID) :
                     /\ normalizedPathString(a) = desired
                     /\ EqualFold(a.Currency, account.Currency)
        accNew == NewAccount(ob.accts, account)
        w == WriterCreateAccount(ob.accts, accNew, ob.writes + 1, failAt)
    IN  IF verr # "" THEN [accts |-> accts, acc |-> accNew, err |-> verr, writes |-> writes]
        ELSE IF ob.err # ""
        THEN [accts |-> ob.accts, acc |-> accNew, err |-> ob.err, writes |-> ob.writes]
        ELSE IF exists
        THEN [accts |-> ob.accts, acc |-> accNew,
              err |-> "account path already exists for user", writes |-> ob.writes]
        ELSE [accts |-> w.accts, acc |-> accNew, err |-> w.err, writes |-> ob.writes + 1]

\* Store.GetAccount: the account is found if it exists and belongs to userID
GetAccountFound(accts, userID, accountID) ==
    accountID \in DOMAIN accts /\ accts[accountID].UserID = userID

\* Store.UpdateAccount: the stored account is replaced by a
UpdateAccount(accts, a) ==
    [id \in DOMAIN accts \cup {a.ID} |-> IF id = a.ID THEN a ELSE accts[id]]

\* Update as it would be without the guard on system accounts
UpdateSystemToo(accts, a) ==
    IF a.UserID = NilUUID \/ a.ID = NilUUID THEN [accts |-> accts, err |-> "invalid"]
    ELSE IF ~GetAccountFound(accts, a.UserID, a.ID)
    THEN [accts |-> accts, err |-> "not_found"]
    ELSE IF accts[a.ID].Type # a.Type \/ accts[a.ID].Currency # a.Currency
    THEN [accts |-> accts, err |-> "immutable"]
    ELSE IF a.System # accts[a.ID].System THEN [accts |-> accts, err |-> "immutable"]
    ELSE [accts |-> UpdateAccount(accts, a), err |-> ""]

\* Update as it would be without the checks on type, currency and system flag
UpdateAnyField(accts, a) ==
    IF a.UserID = NilUUID \/ a.ID = NilUUID THEN [accts |-> accts, err |-> "invalid"]
    ELSE IF ~GetAccountFound(accts, a.UserID, a.ID)
    THEN [accts |-> accts, err |-> "not_found"]
    ELSE IF accts[a.ID].System THEN [accts |-> accts, err |-> "system_account"]
    ELSE [accts |-> UpdateAccount(accts, a), err |-> ""]

\* Update: [accts, err]
Update(accts, a) ==
    LET current == accts[a.ID]
        desired == normalizedPathString(a)
        exists == \E other \in ListAccounts(accts, a.UserID) :
                     /\ other.ID # a.ID
                     /\ other.UserID = a.UserID
                     /\ normalizedPathString(other) = desired
                     /\ EqualFold(other.Currency, a.Currency)
    IN  IF a.UserID = NilUUID \/ a.ID = NilUUID THEN [accts |-> accts, err |-> "invalid"]
        ELSE IF ~GetAccountFound(accts, a.UserID, a.ID)
        THEN [accts |-> accts, err |-> "not_found"]
        ELSE IF current.System THEN [accts |-> accts, err |-> "system_account"]
        ELSE IF current.Type # a.Type \/ current.Currency # a.Currency
        THEN [accts |-> accts, err |-> "immutable"]
        ELSE IF a.System # current.System THEN [accts |-> accts, err |-> "immutable"]
        ELSE IF (current.Group # a.Group \/ current.Vendor # a.Vendor) /\ exists
        THEN [accts |-> accts, err |-> "account path already exists for user"]
        ELSE [accts |-> UpdateAccount(accts, a), err |-> ""]

\* Deactivate as it would be if it removed the account
DeactivateDeletes(accts, userID, accountID) ==
    IF userID = NilUUID \/ accountID = NilUUID THEN [accts |-> accts, err |-> "invalid"]
    ELSE IF ~GetAccountFound(accts, userID, accountID)
    THEN [accts |-> accts, err |-> "not_found"]
    ELSE IF accts[accountID].System THEN [accts |-> accts, err |-> "system_account"]
    ELSE [accts |-> [id \in DOMAIN accts \ {accountID} |-> accts[id]], err |-> ""]

\* Deactivate: [accts, err]
Deactivate(accts, userID, accountID) ==
    IF userID = NilUUID \/ accountID = NilUUID THEN [accts |-> accts, err |-> "invalid"]
    ELSE IF ~GetAccountFound(accts, userID, accountID)
    THEN [accts |-> accts, err |-> "not_found"]
    ELSE IF accts[accountID].System THEN [accts |-> accts, err |-> "system_account"]
    ELSE [accts |-> UpdateAccount(accts, [accts[accountID] EXCEPT !.Active = FALSE]),
          err |-> ""]

\* index, code and message of one failing batch item (ItemError)
ItemError(index, code, err) == [Index |-> index, Code |-> code, Error |-> err]

\* first loop of EnsureAccountsBatch: the normalized copy of spec in
NormalizeSpec(in, userID) ==
    [in EXCEPT !.UserID = userID, !.Group = TrimSpace(@), !.Vendor = TrimSpace(@),
               !.Currency = ToUpper(TrimSpace(@))]

\* first loop of EnsureAccountsBatch: the validation errors, in item order
RECURSIVE ValidationLoop(_, _, _)
ValidationLoop(normalized, i, errsList) ==
    IF i > Len(normalized) THEN errsList
    ELSE LET verr == ValidateCreate(normalized[i])
         IN  ValidationLoop(normalized, i + 1,
                IF verr # "" THEN Append(errsList, ItemError(i - 1, "validation_error", verr))
                ELSE errsList)

\* second loop of EnsureAccountsBatch: one EnsureOpeningBalanceAccount per
\* distinct currency; [accts, err, writes]
RECURSIVE OpeningBalancesLoop(_, _, _, _, _, _, _)
OpeningBalancesLoop(accts, userID, normalized, i, seenCurr, writes, failAt) ==
    IF i > Len(normalized) THEN [accts |-> accts, err |-> "", writes |-> writes]
    ELSE IF normalized[i].Currency \in seenCurr
    THEN OpeningBalancesLoop(accts, userID, normalized, i + 1, seenCurr, writes, failAt)
    ELSE LET r == EnsureOpeningBalanceAccount(accts, userID, normalized[i].Currency,
                                              writes, failAt)
         IN  IF r.err # "" THEN r
             ELSE OpeningBalancesLoop(r.accts, userID, normalized, i + 1,
                                      seenCurr \cup {normalized[i].Currency}, r.writes, failAt)

\* third loop of EnsureAccountsBatch: duplicates inside the batch and conflicts
\* with existing accounts; seen holds <<desired, index>> pairs
RECURSIVE ConflictLoop(_, _, _, _, _, _)
ConflictLoop(normalized, existing, userID, i, seen, errsList) ==
    IF i > Len(normalized) THEN errsList
    ELSE LET a == normalized[i]
             desired == <<normalizedPathString(a), ToUpper(a.Currency)>>
             prev == {p \in seen : p[1] = desired}
             clash == \E other \in existing :
                         /\ other.UserID = userID
                         /\ normalizedPathString(other) = normalizedPathString(a)
                         /\ EqualFold(other.Currency, a.Currency)
             pathExists == "account path already exists for user"
         IN  IF prev # {}
             THEN ConflictLoop(normalized, existing, userID, i + 1, seen,
                     errsList \o <<ItemError(i - 1, "conflict", pathExists),
                                   ItemError((CHOOSE p \in prev : TRUE)[2], "conflict",
                                             pathExists)>>)
             ELSE ConflictLoop(normalized, existing, userID, i + 1,
                     seen \cup {<<desired, i - 1>>},
                     IF clash THEN Append(errsList, ItemError(i - 1, "conflict", pathExists))
                     ELSE errsList)

\* s.writer.(txBeginner): the assertion asks for a BeginTx that returns the
\* anonymous interface type; BeginTx of the memory Store returns *batchTx and
\* BeginTx of the postgres Store returns *Tx, so neither Writer satisfies it
ImplementsTxBeginner == FALSE

\* Account.Path
Path(a) ==
    IF a.Type = "equity" /\ EqualFold(a.Group, "OpeningBalances")
    THEN <<"equity", "openingbalances">>
    ELSE <<a.Type, ToLower(a.Group), ToLower(a.Vendor)>>

\* transaction path of EnsureAccountsBatch: tx.CreateAccount per item;
\* [accts, created, err, writes] with accts the store as Commit would leave it
RECURSIVE TxStageLoop(_, _, _, _, _, _)
TxStageLoop(accts, normalized, i, created, writes, failAt) ==
    IF i > Len(normalized)
    THEN [accts |-> accts, created |-> created, err |-> "", writes |-> writes]
    ELSE LET acc == NewAccount(accts, normalized[i])
             w == WriterCreateAccount(accts, acc, writes + 1, failAt)
         IN  IF w.err # ""
             THEN [accts |-> accts, created |-> created, err |-> w.err, writes |-> writes + 1]
             ELSE TxStageLoop(w.accts, normalized, i + 1, Append(created, acc),
                              writes + 1, failAt)

\* batchTx.Commit / Tx.Commit: all staged accounts or none
TxCommit(accts, staged, writes, failAt) ==
    LET conflictFound == \E i \in 1..Len(staged.created) : \E id \in DOMAIN accts :
                            /\ accts[id].UserID = staged.created[i].UserID
                            /\ accts[id].Currency = staged.created[i].Currency
                            /\ Path(accts[id]) = Path(staged.created[i])
    IN  IF writes + 1 = failAt THEN [accts |-> accts, err |-> "commit failed"]
        ELSE IF conflictFound THEN [accts |-> accts, err |-> "conflict"]
        ELSE [accts |-> staged.accts, err |-> ""]

\* fallback path of EnsureAccountsBatch: one Create per item, no transaction
RECURSIVE FallbackLoop(_, _, _, _, _, _)
FallbackLoop(accts, normalized, i, created, writes, failAt) ==
    IF i > Len(normalized)
    THEN [accts |-> accts, created |-> created, errsList |-> << >>, err |-> ""]
    ELSE LET r == Create(accts, normalized[i], writes, failAt)
         IN  IF r.err # ""
             THEN [accts |-> r.accts, created |-> << >>, errsList |-> << >>, err |-> r.err]
             ELSE FallbackLoop(r.accts, normalized, i + 1, Append(created, r.acc),
                               r.writes, failAt)

\* EnsureAccountsBatch as it would be with the early return on validation
\* errors lost: the valid items are created, the invalid ones reported
EnsureAccountsBatchPartial(accts, userID, specs, failAt) ==
    LET normalized == [i \in 1..Len(specs) |-> NormalizeSpec(specs[i], userID)]
        verrs == ValidationLoop(normalized, 1, << >>)
        valid == SelectSeq(normalized, LAMBDA a : ValidateCreate(a) = "")
        made == FallbackLoop(accts, valid, 1, << >>, 0, failAt)
    IN  IF Len(verrs) > 0 THEN [made EXCEPT !.created = << >>, !.errsList = verrs]
        ELSE made

\* EnsureAccountsBatch: [accts, created, errsList, err]
EnsureAccountsBatch(accts, userID, specs, failAt) ==
    LET normalized == [i \in 1..Len(specs) |-> NormalizeSpec(specs[i], userID)]
        verrs == ValidationLoop(normalized, 1, << >>)
        ob == OpeningBalancesLoop(accts, userID, normalized, 1, {}, 0, failAt)
        cerrs == ConflictLoop(normalized, ListAccounts(ob.accts, userID), userID, 1, {}, << >>)
        staged == TxStageLoop(ob.accts, normalized, 1, << >>, ob.writes, failAt)
        commit == TxCommit(ob.accts, staged, staged.writes, failAt)
        none == [accts |-> accts, created |-> << >>, errsList |-> << >>, err |-> ""]
    IN  IF userID = NilUUID THEN [none EXCEPT !.err = "invalid"]
        ELSE IF Len(verrs) > 0 THEN [none EXCEPT !.errsList = verrs]
        ELSE IF ob.err # "" THEN [none EXCEPT !.accts = ob.accts, !.err = ob.err]
        ELSE IF Len(cerrs) > 0 THEN [none EXCEPT !.accts = ob.accts, !.errsList = cerrs]
        ELSE IF ImplementsTxBeginner
        THEN IF staged.err # "" THEN [none EXCEPT !.accts = ob.accts, !.err = staged.err]
             ELSE IF commit.err # "" THEN [none EXCEPT !.accts = ob.accts, !.err = commit.err]
             ELSE [none EXCEPT !.accts = commit.accts, !.created = staged.created]
        ELSE FallbackLoop(ob.accts, normalized, 1, << >>, ob.writes, failAt)

\* ------------------------------------------------------------------------
\* HTTP inputs of the entry endpoints
\* ------------------------------------------------------------------------
\* one line of a request body (postEntryLine)
DraftLine(a, s, u) == [AccountID |-> a, Side |-> s, AmountMinor |-> u]

\* the request lines the model draws from: both sides, every seeded account,
\* the zero amount, the unit amount and amounts next to the integer's maximum
LineKinds ==
    <<DraftLine("a1", SideDebit, 1), DraftLine("a1", SideDebit, MaxInt),
      DraftLine("a2", SideDebit, 2), DraftLine("a2", SideCredit, 0),
      DraftLine("a2", SideCredit, 1), DraftLine("a3", SideDebit, 1),
      DraftLine("a3", SideCredit, 1)>>

\* request line lists of up to MaxLines lines; the service keeps lines in a
\* map, so one representative per multiset of lines is drawn
DraftLines ==
    UNION {{[j \in 1..n |-> LineKinds[f[j]]] :
              f \in {g \in [1..n -> 1..Len(LineKinds)] :
                        \A j \in 1..(n - 1) : g[j] <= g[j + 1]}} :
           n \in 0..MaxLines}

\* currency codes as request bodies spell them
RequestCurrencies == {"USD", "gbp"}

\* memo strings are sequences of words; << >> is the empty memo
UserMemo == <<"m">>

\* toEntryDomain: the draft entry built from a postEntryRequest
toEntryDomain(req) ==
    [UserID |-> req.UserID, Date |-> req.Date, Currency |-> ToUpper(req.Currency),
     Memo |-> req.Memo,
     Lines |-> [i \in 1..Len(req.Lines) |->
                  [AccountID |-> req.Lines[i].AccountID, Side |-> req.Lines[i].Side,
                   Amount |-> NewAmountFromMinorUnits(ToUpper(req.Currency),
                                                      req.Lines[i].AmountMinor)]]]

\* line mapping of reclassifyEntry: every amount is built as USD
reclassifyLines(lines) ==
    [i \in 1..Len(lines) |->
        [AccountID |-> lines[i].AccountID, Side |-> lines[i].Side,
         Amount |-> NewAmountFromMinorUnits("USD", lines[i].AmountMinor)]]

\* ------------------------------------------------------------------------
\* Actions of the entry endpoints
\* ------------------------------------------------------------------------
\* POST /v1/entries with the given body: validatePostEntry, then postEntry
postEntryWith(userID, currency, date, lines) ==
    /\ Cardinality(DOMAIN entriesByID) < MaxEntries
    /\ LET e == toEntryDomain([UserID |-> userID, Date |-> date, Currency |-> currency,
                               Memo |-> UserMemo, Lines |-> lines])
           st == CreateEntry(TheStore, e, NewEntryID(DOMAIN entriesByID))
       IN  /\ ValidateEntry(accountsByID, e) = ""
           /\ entriesByID' = st.entries
           /\ entryIndexByUser' = st.index
    /\ UNCHANGED <<accountsByID, batchIdem, idempotencyByUser, requests>>

postEntry ==
    \E userID \in Users, currency \in RequestCurrencies, date \in Dates, lines \in DraftLines :
        postEntryWith(userID, currency, date, lines)

\* POST /v1/entries/reverse with the given body: validateReverseEntry, then
\* reverseEntry
reverseEntryWith(userID, entryID, date) ==
    /\ Cardinality(DOMAIN entriesByID) < MaxEntries
    /\ LET r == ReverseEntry(TheStore, userID, entryID, date, NewEntryID(DOMAIN entriesByID))
       IN  /\ r.err = ""
           /\ entriesByID' = r.st.entries
           /\ entryIndexByUser' = r.st.index
    /\ UNCHANGED <<accountsByID, batchIdem, idempotencyByUser, requests>>

reverseEntry ==
    \E userID \in Users, entryID \in EntryIDs, date \in Dates :
        reverseEntryWith(userID, entryID, date)

\* POST /v1/entries/reclassify with the given body: reclassifyEntry
reclassifyEntryWith(userID, entryID, date, memo, lines) ==
    /\ Cardinality(DOMAIN entriesByID) + 2 <= MaxEntries
    /\ LET rid == NewEntryID(DOMAIN entriesByID)
           cid == NewEntryID(DOMAIN entriesByID \cup {rid})
           r == Reclassify(TheStore, accountsByID, userID, entryID, date, memo,
                           reclassifyLines(lines), rid, cid)
       IN  /\ r.created # {}
           /\ entriesByID' = r.st.entries
           /\ entryIndexByUser' = r.st.index
    /\ UNCHANGED <<accountsByID, batchIdem, idempotencyByUser, requests>>

reclassifyEntry ==
    \E userID \in Users, entryID \in EntryIDs, date \in Dates, lines \in DraftLines :
        reclassifyEntryWith(userID, entryID, date, << >>, lines)

Next ==
    \/ postEntry
    \/ reverseEntry
    \/ reclassifyEntry

Spec == Init /\ [][Next]_vars

\* ------------------------------------------------------------------------
\* batch endpoints: inputs
\* ------------------------------------------------------------------------
\* most batch requests received in one behaviour
MaxRequests == 2

\* Idempotency-Key header values
Keys == {"k1", "k2"}

\* the user of the account batches
BatchUser == "u1"

\* postAccountRequest items
\* meta.Metadata is a map from string to string; the nil and the empty map
NoMetadata == << >>

AccountItem(name, currency, group, vendor) ==
    [Name |-> name, Currency |-> currency, Type |-> "asset", Group |-> group,
     Vendor |-> vendor, System |-> FALSE, Metadata |-> NoMetadata]

itemPocket == AccountItem("Wallet 1", "USD", "cash", "Pocket")
\* the path and currency of itemPocket once normalized
itemPocketAgain == AccountItem("Wallet 2", "usd", "cash", " Pocket ")
itemBank == AccountItem("Bank", "USD", "cash", "Bank")
\* fails ValidateCreate
itemInvalid == AccountItem("", "", "", "")
\* the path and currency of the seeded account a1
itemWallet == AccountItem("Cash 2", "USD", "cash", "Wallet")

\* "accounts" arrays of the request bodies
AccountBatches ==
    {<<itemPocket>>, <<itemPocket, itemBank>>, <<itemPocket, itemInvalid>>,
     <<itemPocket, itemPocketAgain>>, <<itemWallet>>}

\* postEntryRequest items
entryOK ==
    [UserID |-> "u1", Date |-> 1, Currency |-> "USD", Memo |-> UserMemo,
     Lines |-> <<DraftLine("a1", SideDebit, 1), DraftLine("a2", SideCredit, 1)>>]
\* fails ValidateEntry: one line only
entryShort ==
    [UserID |-> "u1", Date |-> 1, Currency |-> "USD", Memo |-> UserMemo,
     Lines |-> <<DraftLine("a1", SideDebit, 1)>>]

\* "entries" arrays of the request bodies
EntryBatches == {<<entryOK>>, <<entryOK, entryShort>>}

\* toAccountDomain
toAccountDomain(req) ==
    [UserID |-> NilUUID, Name |-> req.Name, Currency |-> req.Currency, Type |-> req.Type,
     Group |-> req.Group, Vendor |-> req.Vendor, System |-> req.System]

\* hashBytes of the normalized body: SHA-256 is taken as injective, so the
\* hash is the normalized body itself
hashBytes(norm) == norm

\* the metadata keys of the request bodies, as sort.Strings orders them
MetadataKeys == <<"note", "tag">>

\* meta.New: a copy of the map
New(m) == [k \in DOMAIN m |-> m[k]]

\* Metadata.MarshalStableJSON: the pairs of the map, keys sorted
MarshalStableJSON(m) ==
    SelectSeq([i \in 1..Len(MetadataKeys) |->
                  IF MetadataKeys[i] \in DOMAIN m
                  THEN <<MetadataKeys[i], m[MetadataKeys[i]]>> ELSE << >>],
              LAMBDA pair : pair # << >>)

\* normAcct of postAccountsBatch: the fields as the request gives them, in
\* the order of the struct, the metadata in its stable encoding
normAcct(userID, accounts) ==
    <<"user_id", userID, "accounts",
      [i \in 1..Len(accounts) |->
          [UserID |-> userID, Name |-> accounts[i].Name, Currency |-> accounts[i].Currency,
           Group |-> accounts[i].Group, Vendor |-> accounts[i].Vendor,
           Type |-> accounts[i].Type,
           Metadata |-> MarshalStableJSON(New(accounts[i].Metadata))]]>>

\* normReq of postEntriesBatch
normReq(entries) ==
    <<"entries",
      [i \in 1..Len(entries) |->
          [UserID |-> entries[i].UserID, Date |-> entries[i].Date,
           Currency |-> entries[i].Currency, Memo |-> entries[i].Memo,
           Lines |-> entries[i].Lines]]>>

\* ------------------------------------------------------------------------
\* batch endpoints: responses
\* ------------------------------------------------------------------------
StatusCreated == 201
StatusBadRequest == 400
StatusConflict == 409
StatusUnprocessableEntity == 422

\* what a handler has written to its ResponseWriter: status and body
Response(status, payload) == [status |-> status, payload |-> payload]
NoResponse == Response(0, << >>)

\* writeErr: errorResponse{Error: msg, Code: code}
writeErr(status, msg, code) == Response(status, <<"error", msg, code>>)
conflict(msg) == writeErr(StatusConflict, msg, "")

\* accountResponse of a created account
toAccountResponse(a) ==
    [ID |-> a.ID, UserID |-> a.UserID, Name |-> a.Name, Currency |-> a.Currency,
     Type |-> a.Type, Group |-> a.Group, Vendor |-> a.Vendor, Path |-> Path(a),
     System |-> a.System, Active |-> a.Active]

\* the response postAccountsBatch writes for a result of EnsureAccountsBatch
accountsBatchResponse(res) ==
    IF res.err # "" THEN writeErr(StatusBadRequest, res.err, "")
    ELSE IF Len(res.errsList) > 0
    THEN Response(StatusUnprocessableEntity, <<"errors", res.errsList>>)
    ELSE Response(StatusCreated,
                  <<"accounts", [i \in 1..Len(res.created) |->
                                    toAccountResponse(res.created[i])]>>)

\* ------------------------------------------------------------------------
\* batch endpoints: handlers
\* ------------------------------------------------------------------------
\* the idempotency check as it would be with the hash comparison deciding
\* only between replay and execution
lookupBatchNoMismatch(cache, key, h) ==
    IF key \in DOMAIN cache /\ cache[key].BodyHash = h THEN "replay" ELSE "miss"

\* the idempotency check made under batchIdemMu.RLock
lookupBatch(cache, key, h) ==
    IF key \in DOMAIN cache
    THEN IF cache[key].BodyHash = h THEN "replay" ELSE "mismatch"
    ELSE "miss"

\* the response a handler writes straight after the idempotency check
lookupResponse(cache, key, h) ==
    CASE lookupBatch(cache, key, h) = "replay" ->
            Response(cache[key].Status, cache[key].Payload)
      [] lookupBatch(cache, key, h) = "mismatch" -> conflict("idempotency_mismatch")
      [] OTHER -> NoResponse

\* a decoded, well-formed batch request entering its handler: the request as
\* the idempotency check leaves it; id tells requests with the same key and
\* body apart
NewRequest(endpoint, key, body, h) ==
    [id |-> Cardinality({r \in requests : r.key = key /\ r.hash = h}) + 1,
     endpoint |-> endpoint, key |-> key, body |-> body,
     hash |-> h, how |-> lookupBatch(batchIdem, key, h),
     pc |-> IF lookupBatch(batchIdem, key, h) = "miss" THEN "execute" ELSE "done",
     resp |-> lookupResponse(batchIdem, key, h)]

\* postAccountsBatch up to the release of batchIdemMu.RLock: a replay and a
\* mismatch end the handler here
postAccountsBatch(key, accounts) ==
    /\ Cardinality(requests) < MaxRequests
    /\ requests' = requests \cup
          {NewRequest("accounts", key, accounts, hashBytes(normAcct(BatchUser, accounts)))}
    /\ UNCHANGED <<accountsByID, entriesByID, entryIndexByUser, batchIdem, idempotencyByUser>>

\* postEntriesBatch up to the release of batchIdemMu.RLock
postEntriesBatch(key, entries) ==
    /\ Cardinality(requests) < MaxRequests
    /\ requests' = requests \cup
          {NewRequest("entries", key, entries, hashBytes(normReq(entries)))}
    /\ UNCHANGED <<accountsByID, entriesByID, entryIndexByUser, batchIdem, idempotencyByUser>>

\* outcome of the business logic of account request r when its failAt-th
\* write fails
accountsBatchResult(r, failAt) ==
    EnsureAccountsBatch(accountsByID, BatchUser,
                        [i \in 1..Len(r.body) |-> toAccountDomain(r.body[i])], failAt)

\* postAccountsBatch from the call of EnsureAccountsBatch to the response
accountsBatchExecute(r, failAt) ==
    /\ r \in requests /\ r.endpoint = "accounts" /\ r.pc = "execute"
    /\ LET res == accountsBatchResult(r, failAt)
       IN  /\ accountsByID' = res.accts
           /\ requests' = (requests \ {r}) \cup
                 {[r EXCEPT !.pc = "store", !.resp = accountsBatchResponse(res)]}
    /\ UNCHANGED <<entriesByID, entryIndexByUser, batchIdem, idempotencyByUser>>

\* the drafts of a batch are validated one by one
RECURSIVE EntryValidationLoop(_, _, _, _)
EntryValidationLoop(accts, drafts, i, errsList) ==
    IF i > Len(drafts) THEN errsList
    ELSE LET verr == ValidateEntry(accts, drafts[i])
         IN  EntryValidationLoop(accts, drafts, i + 1,
                IF verr # "" THEN Append(errsList, ItemError(i - 1, "validation_error", verr))
                ELSE errsList)

\* the drafts of a batch are staged with fresh identifiers
RECURSIVE EntryStageLoop(_, _, _, _)
EntryStageLoop(st, drafts, i, created) ==
    IF i > Len(drafts) THEN [st |-> st, created |-> created]
    ELSE LET id == NewEntryID(DOMAIN st.entries)
             next == CreateEntry(st, drafts[i], id)
         IN  EntryStageLoop(next, drafts, i + 1, Append(created, next.entries[id]))

\* CreateEntriesBatch: every draft is validated; with any failure nothing is
\* persisted and one record per failing draft is returned; otherwise all
\* drafts are written in one transaction, which a storage failure rolls back
CreateEntriesBatch(st, accts, drafts, failAt) ==
    LET verrs == EntryValidationLoop(accts, drafts, 1, << >>)
        staged == EntryStageLoop(st, drafts, 1, << >>)
        none == [st |-> st, created |-> << >>, errsList |-> << >>, err |-> ""]
    IN  IF Len(verrs) > 0 THEN [none EXCEPT !.errsList = verrs]
        ELSE IF failAt # 0 THEN [none EXCEPT !.err = "write failed"]
        ELSE [none EXCEPT !.st = staged.st, !.created = staged.created]

\* the response postEntriesBatch writes for a result of CreateEntriesBatch
entriesBatchResponse(res) ==
    IF res.err # "" THEN writeErr(StatusBadRequest, res.err, "")
    ELSE IF Len(res.errsList) > 0
    THEN Response(StatusUnprocessableEntity, <<"errors", res.errsList>>)
    ELSE Response(StatusCreated, <<"entries", res.created>>)

entriesBatchResult(r, failAt) ==
    CreateEntriesBatch(TheStore, accountsByID,
                       [i \in 1..Len(r.body) |-> toEntryDomain(r.body[i])], failAt)

\* postEntriesBatch from the call of CreateEntriesBatch to the response
entriesBatchExecute(r, failAt) ==
    /\ r \in requests /\ r.endpoint = "entries" /\ r.pc = "execute"
    /\ Cardinality(DOMAIN entriesByID) + Len(r.body) <= MaxEntries
    /\ LET res == entriesBatchResult(r, failAt)
       IN  /\ entriesByID' = res.st.entries
           /\ entryIndexByUser' = res.st.index
           /\ requests' = (requests \ {r}) \cup
                 {[r EXCEPT !.pc = "store", !.resp = entriesBatchResponse(res)]}
    /\ UNCHANGED <<accountsByID, batchIdem, idempotencyByUser>>

\* storeBatch under batchIdemMu.Lock, and the handler's return
storeBatch(r) ==
    /\ r \in requests /\ r.pc = "store"
    /\ batchIdem' = [k \in DOMAIN batchIdem \cup {r.key} |->
                        IF k = r.key
                        THEN [BodyHash |-> r.hash, Status |-> r.resp.status,
                              Payload |-> r.resp.payload]
                        ELSE batchIdem[k]]
    /\ requests' = (requests \ {r}) \cup {[r EXCEPT !.pc = "done"]}
    /\ UNCHANGED <<accountsByID, entriesByID, entryIndexByUser, idempotencyByUser>>

\* ordinal of the failing Writer call of one execution; 0: none fails
FailAt == 0..3

NextBatch ==
    \/ \E key \in Keys, accounts \in AccountBatches : postAccountsBatch(key, accounts)
    \/ \E key \in Keys, entries \in EntryBatches : postEntriesBatch(key, entries)
    \/ \E r \in requests, failAt \in FailAt : accountsBatchExecute(r, failAt)
    \/ \E r \in requests, failAt \in FailAt : entriesBatchExecute(r, failAt)
    \/ \E r \in requests : storeBatch(r)

SpecBatch == Init /\ [][NextBatch]_vars

\* ------------------------------------------------------------------------
\* POST /accounts/batch: from the JSON text of the body to its hash
\* ------------------------------------------------------------------------
\* a JSON object as the request carries it: its members in the order of the
\* text, each a pair of name and value
JSONObject(order, members) == [i \in 1..Len(order) |-> members[order[i]]]

\* the metadata object of the request items, its keys in two orders
rawMetadata(order) == JSONObject(order, <<<<"note", "n">>, <<"tag", "t">>>>)

\* one item of "accounts", its members in two orders
rawAccount(order, name, currency, metaOrder) ==
    JSONObject(order,
               <<<<"name", name>>, <<"currency", currency>>, <<"type", "asset">>,
                 <<"group", "cash">>, <<"vendor", "Pocket">>,
                 <<"metadata", rawMetadata(metaOrder)>>>>)

\* request bodies of one item: the same account with its members, its
\* metadata keys and the letter case of its currency varied, and an account
\* of another name
RawBatches ==
    {<<rawAccount(order, "Wallet 1", currency, metaOrder)>> :
        order \in {<<1, 2, 3, 4, 5, 6>>, <<6, 5, 4, 3, 2, 1>>},
        currency \in {"USD", "usd"},
        metaOrder \in {<<1, 2>>, <<2, 1>>}}
    \cup {<<rawAccount(<<1, 2, 3, 4, 5, 6>>, "Wallet 9", "USD", <<1, 2>>)>>}

\* value of the member called name, as encoding/json finds it; def when the
\* object has no such member
Member(object, name, def) ==
    LET at == {i \in 1..Len(object) : object[i][1] = name}
    IN  IF at = {} THEN def
        ELSE object[CHOOSE i \in at : \A j \in at : j <= i][2]

\* Metadata.UnmarshalJSON: the object as a map
UnmarshalMetadata(object) ==
    [k \in {object[i][1] : i \in 1..Len(object)} |-> Member(object, k, "")]

\* dec.Decode into postAccountRequest
DecodeAccount(object) ==
    [Name |-> Member(object, "name", ""), Currency |-> Member(object, "currency", ""),
     Type |-> Member(object, "type", ""), Group |-> Member(object, "group", ""),
     Vendor |-> Member(object, "vendor", ""), System |-> FALSE,
     Metadata |-> UnmarshalMetadata(Member(object, "metadata", << >>))]

DecodeAccounts(raw) == [i \in 1..Len(raw) |-> DecodeAccount(raw[i])]

\* postAccountsBatch from the decoding of the body to the release of
\* batchIdemMu.RLock; raw keeps the text the request carried
postAccountsBatchJSON(key, raw) ==
    LET accounts == DecodeAccounts(raw)
    IN  /\ Cardinality(requests) < MaxRequests
        /\ requests' = requests \cup
              {[raw |-> raw] @@
               NewRequest("accounts", key, accounts,
                          hashBytes(normAcct(BatchUser, accounts)))}
        /\ UNCHANGED <<accountsByID, entriesByID, entryIndexByUser, batchIdem,
                       idempotencyByUser>>

NextHash ==
    \/ \E key \in Keys, raw \in RawBatches : postAccountsBatchJSON(key, raw)
    \/ \E r \in requests : accountsBatchExecute(r, 0)
    \/ \E r \in requests : storeBatch(r)

SpecHash == Init /\ [][NextHash]_vars

\* ------------------------------------------------------------------------
\* account service: the operations called one after another
\* ------------------------------------------------------------------------
\* most accounts ever stored in one behaviour
MaxAccounts == 6

\* the accounts Create is called with
CreateInputs ==
    {[toAccountDomain(item) EXCEPT !.UserID = userID] :
        userID \in {BatchUser},
        item \in {itemPocket, itemPocketAgain, itemInvalid, itemWallet}}

\* the k-th way a caller of Update departs from the stored account
UpdateVariants == {"name", "vendor", "type", "currency", "system", "user"}
UpdateVariant(acc, k) ==
    CASE k = "name" -> [acc EXCEPT !.Name = "Renamed"]
      [] k = "vendor" -> [acc EXCEPT !.Vendor = "Pocket"]
      [] k = "type" -> [acc EXCEPT !.Type = IF @ = "asset" THEN "liability" ELSE "asset"]
      [] k = "currency" -> [acc EXCEPT !.Currency = IF @ = "USD" THEN "GBP" ELSE "USD"]
      [] k = "system" -> [acc EXCEPT !.System = ~@]
      [] k = "user" -> [acc EXCEPT !.UserID = IF @ = "u1" THEN "u2" ELSE "u1"]

\* the accounts Update is called for: those of BatchUser
UpdateTargets == {id \in DOMAIN accountsByID : accountsByID[id].UserID = BatchUser}

\* the accounts Deactivate is called for: the seeded income account and the
\* system accounts
DeactivateTargets ==
    {id \in DOMAIN accountsByID : id = "a2" \/ accountsByID[id].System}

\* a call of the service and the error it returned ("" for nil)
Served(op, account, specs, err, errsList) ==
    [op |-> op, account |-> account, specs |-> specs, err |-> err, errsList |-> errsList]

callCreate(account) ==
    LET r == Create(accountsByID, account, 0, 0)
    IN  /\ Cardinality(DOMAIN accountsByID) + 2 <= MaxAccounts
        /\ accountsByID' = r.accts
        /\ requests' = {Served("Create", account, << >>, r.err, << >>)}
        /\ UNCHANGED <<entriesByID, entryIndexByUser, batchIdem, idempotencyByUser>>

callUpdate(a) ==
    LET r == Update(accountsByID, a)
    IN  /\ accountsByID' = r.accts
        /\ requests' = {Served("Update", a, << >>, r.err, << >>)}
        /\ UNCHANGED <<entriesByID, entryIndexByUser, batchIdem, idempotencyByUser>>

callDeactivate(userID, accountID) ==
    LET r == Deactivate(accountsByID, userID, accountID)
    IN  /\ accountsByID' = r.accts
        /\ requests' = {Served("Deactivate", [ID |-> accountID, UserID |-> userID],
                               << >>, r.err, << >>)}
        /\ UNCHANGED <<entriesByID, entryIndexByUser, batchIdem, idempotencyByUser>>

callEnsureAccountsBatch(userID, body) ==
    LET specs == [i \in 1..Len(body) |-> toAccountDomain(body[i])]
        r == EnsureAccountsBatch(accountsByID, userID, specs, 0)
    IN  /\ Cardinality(DOMAIN accountsByID) + Len(body) + 1 <= MaxAccounts
        /\ accountsByID' = r.accts
        /\ requests' = {Served("EnsureAccountsBatch", [ID |-> NilUUID, UserID |-> userID],
                               specs, r.err, r.errsList)}
        /\ UNCHANGED <<entriesByID, entryIndexByUser, batchIdem, idempotencyByUser>>

NextAccount ==
    \/ \E account \in CreateInputs : callCreate(account)
    \/ \E id \in UpdateTargets, k \in UpdateVariants :
          callUpdate(UpdateVariant(accountsByID[id], k))
    \/ \E userID \in Users, id \in DeactivateTargets : callDeactivate(userID, id)
    \/ \E body \in AccountBatches : callEnsureAccountsBatch(BatchUser, body)

SpecAccount == Init /\ [][NextAccount]_vars

\* ------------------------------------------------------------------------
\* account service: EnsureOpeningBalanceAccount called on its own
\* ------------------------------------------------------------------------
\* ledger.Account{}: the account returned together with an error
ZeroAccount ==
    [ID |-> NilUUID, UserID |-> NilUUID, Name |-> "", Currency |-> "", Type |-> "",
     Group |-> "", Vendor |-> "", System |-> FALSE, Active |-> FALSE]

\* the account EnsureOpeningBalanceAccount returns when it returns no error:
\* the one its loop found in accts, else the one it wrote into after
EnsuredAccount(accts, after, userID, currencyIn) ==
    LET matches == {a \in ListAccounts(accts, userID) :
                       /\ EqualFold(a.Currency, ToUpper(currencyIn))
                       /\ normalizedPathString(a) = <<"equity", "opening_balances">>}
    IN  IF matches # {} THEN CHOOSE a \in matches : TRUE
        ELSE after[CHOOSE id \in DOMAIN after : id \notin DOMAIN accts]

\* users and currencies EnsureOpeningBalanceAccount is called with
EnsureUsers == Users \cup {NilUUID}
EnsureCurrencies == {"USD", "usd", "GBP", ""}

\* one served call of EnsureOpeningBalanceAccount
ServedEnsure(userID, currency, acc, err) ==
    [op |-> "EnsureOpeningBalanceAccount", userID |-> userID, currency |-> currency,
     acc |-> acc, err |-> err]

callEnsureOpeningBalanceAccount(userID, currency) ==
    LET r == EnsureOpeningBalanceAccount(accountsByID, userID, currency, 0, 0)
    IN  /\ Cardinality(DOMAIN accountsByID) + 1 <= MaxAccounts
        /\ accountsByID' = r.accts
        /\ requests' = {ServedEnsure(userID, currency,
                                     IF r.err = ""
                                     THEN EnsuredAccount(accountsByID, r.accts, userID, currency)
                                     ELSE ZeroAccount,
                                     r.err)}
        /\ UNCHANGED <<entriesByID, entryIndexByUser, batchIdem, idempotencyByUser>>

NextOpening ==
    \/ \E userID \in EnsureUsers, currency \in EnsureCurrencies :
          callEnsureOpeningBalanceAccount(userID, currency)
    \/ \E account \in CreateInputs : callCreate(account)
    \/ \E userID \in Users, id \in DeactivateTargets : callDeactivate(userID, id)

SpecOpening == Init /\ [][NextOpening]_vars

\* ------------------------------------------------------------------------
\* POST /entries with the optional Idempotency-Key header
\* ------------------------------------------------------------------------
\* most entries ever persisted in one behaviour of the keyed endpoint
MaxKeyedEntries == 3

StatusOK == 200

\* values of the Idempotency-Key header; "" is the absent header
EntryKeys == {"", "k1", "k2"}

\* request bodies of the keyed endpoint: valid entries of both users
KeyedBodies ==
    {[UserID |-> "u1", Date |-> 1, Currency |-> "USD", Memo |-> UserMemo,
      Lines |-> <<DraftLine("a1", SideDebit, 1), DraftLine("a2", SideCredit, 1)>>],
     [UserID |-> "u1", Date |-> 2, Currency |-> "USD", Memo |-> UserMemo,
      Lines |-> <<DraftLine("a1", SideDebit, 2), DraftLine("a2", SideCredit, 2)>>],
     [UserID |-> "u2", Date |-> 1, Currency |-> "gbp", Memo |-> UserMemo,
      Lines |-> <<DraftLine("a3", SideDebit, 1), DraftLine("a3", SideCredit, 1)>>]}

\* the request served and the response written: status and the entry returned
ServedEntry(key, body, status, entry) ==
    [op |-> "postEntry", key |-> key, body |-> body, status |-> status, entry |-> entry]

\* postEntry of internal/httpapi/entries.go behind validatePostEntry
postEntryKeyed(idemKey, body) ==
    LET entry == toEntryDomain(body)
        prev == ResolveEntryByIdempotencyKey(idempotencyByUser, entriesByID,
                                             entry.UserID, idemKey)
        entryID == NewEntryID(DOMAIN entriesByID)
        st == CreateEntry(TheStore, entry, entryID)
    IN  /\ ValidateEntry(accountsByID, entry) = ""
        /\ IF idemKey # "" /\ prev.found
           THEN /\ requests' = {ServedEntry(idemKey, body, StatusOK, entriesByID[prev.id])}
                /\ UNCHANGED <<entriesByID, entryIndexByUser, idempotencyByUser>>
           ELSE /\ Cardinality(DOMAIN entriesByID) < MaxKeyedEntries
                /\ entriesByID' = st.entries
                /\ entryIndexByUser' = st.index
                /\ idempotencyByUser' =
                      IF idemKey # ""
                      THEN SaveEntryIdempotencyKey(idempotencyByUser, entry.UserID,
                                                   idemKey, entryID)
                      ELSE idempotencyByUser
                /\ requests' = {ServedEntry(idemKey, body, StatusCreated,
                                            st.entries[entryID])}
        /\ UNCHANGED <<accountsByID, batchIdem>>

NextKeyed == \E idemKey \in EntryKeys, body \in KeyedBodies : postEntryKeyed(idemKey, body)

SpecKeyed == Init /\ [][NextKeyed]_vars

\* ------------------------------------------------------------------------
\* GET /entries and GET /accounts/{id}/ledger: pages and cursors
\* ------------------------------------------------------------------------
\* most entries ever persisted in one behaviour of the listing endpoints
MaxLedgerEntries == 3

\* a nil *time.Time (from, to, as_of not given)
NoTime == 0
\* the limit applied when the parameter is absent or out of range, and the
\* largest limit accepted
DefaultLimit == 50
MaxLimit == 200

\* lim: the limit parameter as the handlers read it (0 stands for absent)
LimitOf(n) == IF n > 0 /\ n <= MaxLimit THEN n ELSE DefaultLimit

\* an absent cursor parameter (the empty string)
NoCursor == << >>
\* base64 of Date.Format(RFC3339Nano) + "|" + ID.String(): the text as its parts
EncodeCursor(date, id) == <<date, "|", id>>
\* strings.Split(string(b), "|") gives exactly two parts, the first of which
\* parses as a time
CursorDecodes(c) == Len(c) = 3 /\ c[2] = "|" /\ c[1] \in Dates
CursorTime(c) == c[1]
CursorID(c) == c[3]

\* the result of sort.Slice under a strict total order given as the set of
\* pairs <<a, b>> with a before b: the element with i - 1 elements before it
Sorted(s, less) ==
    LET elems == {s[i] : i \in 1..Len(s)}
    IN  [i \in 1..Len(s) |->
            CHOOSE x \in elems : Cardinality({y \in elems : <<y, x>> \in less}) = i - 1]

\* window built by time: entries before from or after to are dropped
InWindow(date, from, to) ==
    /\ ~(from # NoTime /\ date < from)
    /\ ~(to # NoTime /\ date > to)

\* the cursor loop as it would be if it started the page on the element the
\* cursor names
RECURSIVE SeekStay(_, _, _, _)
SeekStay(keys, i, ts, cid) ==
    IF i > Len(keys) THEN 0
    ELSE IF keys[i].Date > ts THEN 0
    ELSE IF keys[i].Date = ts /\ keys[i].ID = cid THEN i - 1
    ELSE SeekStay(keys, i + 1, ts, cid)

\* the cursor loop: the (0-based) index after the element the cursor names, 0
\* when the loop breaks or ends without finding it; i is 1-based here
RECURSIVE SeekLoop(_, _, _, _)
SeekLoop(keys, i, ts, cid) ==
    IF i > Len(keys) THEN 0
    ELSE IF keys[i].Date > ts THEN 0
    ELSE IF keys[i].Date = ts /\ keys[i].ID = cid THEN i
    ELSE SeekLoop(keys, i + 1, ts, cid)

\* start index from cursor
StartIndex(keys, cursor) ==
    IF cursor # NoCursor /\ CursorDecodes(cursor)
    THEN SeekLoop(keys, 1, CursorTime(cursor), CursorID(cursor))
    ELSE 0

\* end := start + lim, cut at the length
EndIndex(start, lim, n) == IF start + lim > n THEN n ELSE start + lim

\* the cursor decision as it would be if every non-empty page carried a cursor
NextCursorAlways(keys, start, end) ==
    IF end > start THEN EncodeCursor(keys[end].Date, keys[end].ID) ELSE NoCursor

\* NextCursor: set from the last element of the page if end < len
NextCursorOf(keys, start, end) ==
    IF end < Len(keys) THEN EncodeCursor(keys[end].Date, keys[end].ID) ELSE NoCursor

\* GET /entries: [Items, NextCursor] for the query [UserID, From, To, Limit, Cursor]
listEntries(st, query) ==
    LET unsorted == EntriesByUserID(st, query.UserID)
        all == {unsorted[i] : i \in 1..Len(unsorted)}
        entries == Sorted(unsorted,
                          {<<a, b>> \in all \X all :
                              IF a.Date = b.Date THEN a.ID < b.ID ELSE a.Date < b.Date})
        lim == LimitOf(query.Limit)
        window == SelectSeq(entries, LAMBDA e : InWindow(e.Date, query.From, query.To))
        keys == [i \in 1..Len(window) |-> [Date |-> window[i].Date, ID |-> window[i].ID]]
        start == StartIndex(keys, query.Cursor)
        end == EndIndex(start, lim, Len(window))
    IN  [Items |-> SubSeq(window, start + 1, end),
         NextCursor |-> NextCursorOf(keys, start, end)]

\* uuid.New for the lines of an entry: identifiers are opaque, and the model
\* numbers the lines of entry entryID in the order the entry holds them
LineID(entryID, i) == entryID * (MaxLines + 1) + i

\* the ledgerRecords of one entry for accountID
RecordsOf(e, accountID) ==
    LET idx == SelectSeq([i \in 1..Len(e.Lines) |-> i],
                         LAMBDA i : e.Lines[i].AccountID = accountID)
    IN  [k \in 1..Len(idx) |->
            [date |-> e.Date, entryID |-> e.ID, lineID |-> LineID(e.ID, idx[k]),
             side |-> e.Lines[idx[k]].Side,
             amountMinor |-> MinorUnits(e.Lines[idx[k]].Amount),
             curr |-> e.Lines[idx[k]].Amount.Curr]]

\* the flat list of lines of the account, entries outside [from, to] skipped
RECURSIVE RecordLoop(_, _, _, _, _)
RecordLoop(entries, i, accountID, from, to) ==
    IF i > Len(entries) THEN << >>
    ELSE (IF InWindow(entries[i].Date, from, to) THEN RecordsOf(entries[i], accountID)
          ELSE << >>)
         \o RecordLoop(entries, i + 1, accountID, from, to)

\* AccountBalance with asOf given (NoTime: nil): entries after asOf are skipped
\* in both loops
AccountBalanceAsOf(st, userID, accountID, asOf) ==
    LET entries == SelectSeq(EntriesByUserID(st, userID),
                             LAMBDA e : ~(asOf # NoTime /\ e.Date > asOf))
        lines == MatchingLines(entries, 1, accountID)
        curr == IF Len(lines) > 0 THEN lines[1].Amount.Curr ELSE "USD"
    IN  NetLoop(lines, 1, NewAmountFromMinorUnits(curr, 0))

\* balance, _ = balance.Add(amt) / balance.Sub(amt): amounts of different
\* currencies are an error, and the assignment then stores the zero Amount
Apply(balance, record, currency) ==
    LET amt == NewAmountFromMinorUnits(currency, record.amountMinor)
    IN  IF amt.Curr # balance.Curr THEN ZeroAmount
        ELSE IF record.side = SideDebit
        THEN [balance EXCEPT !.Units = @ + amt.Units]
        ELSE [balance EXCEPT !.Units = @ - amt.Units]

\* the loop over ledgerRecords[:start]
RECURSIVE PrefixLoop(_, _, _, _, _)
PrefixLoop(records, i, start, balance, currency) ==
    IF i > start THEN balance
    ELSE PrefixLoop(records, i + 1, start, Apply(balance, records[i], currency), currency)

\* the loop over pageRecords: the items with their running balance
RECURSIVE ItemLoop(_, _, _, _)
ItemLoop(page, i, balance, currency) ==
    IF i > Len(page) THEN << >>
    ELSE LET b == Apply(balance, page[i], currency)
         IN  <<[Date |-> page[i].date, EntryID |-> page[i].entryID,
                LineID |-> page[i].lineID, Side |-> page[i].side,
                AmountMinor |-> page[i].amountMinor, RunningMinor |-> MinorUnits(b)]>>
             \o ItemLoop(page, i + 1, b, currency)

StatusNotFound == 404

\* GET /accounts/{id}/ledger: [Status, Items, NextCursor] for the query
\* [UserID, AccountID, From, To, Limit, Cursor]
getAccountLedger(st, accts, query) ==
    LET lim == LimitOf(query.Limit)
        unsorted == RecordLoop(EntriesByUserID(st, query.UserID), 1, query.AccountID,
                               query.From, query.To)
        currency == IF Len(unsorted) > 0 THEN unsorted[1].curr ELSE ""
        all == {unsorted[i] : i \in 1..Len(unsorted)}
        ledgerRecords ==
            Sorted(unsorted,
                   {<<a, b>> \in all \X all :
                       IF a.date = b.date
                       THEN IF a.entryID = b.entryID THEN a.lineID < b.lineID
                            ELSE a.entryID < b.entryID
                       ELSE a.date < b.date})
        keys == [i \in 1..Len(ledgerRecords) |->
                    [Date |-> ledgerRecords[i].date, ID |-> ledgerRecords[i].lineID]]
        start == StartIndex(keys, query.Cursor)
        fromBalance == AccountBalanceAsOf(st, query.UserID, query.AccountID, query.To)
        balance == IF start > 0
                   THEN PrefixLoop(ledgerRecords, 1, start, fromBalance, currency)
                   ELSE NewAmountFromMinorUnits(currency, 0)
        end == EndIndex(start, lim, Len(ledgerRecords))
    IN  IF ~GetAccountFound(accts, query.UserID, query.AccountID)
        THEN [Status |-> StatusNotFound, Items |-> << >>, NextCursor |-> NoCursor]
        ELSE [Status |-> StatusOK,
              Items |-> ItemLoop(SubSeq(ledgerRecords, start + 1, end), 1, balance, currency),
              NextCursor |-> NextCursorOf(keys, start, end)]

\* postEntryRequest bodies of the listing model: two users, both dates, debits
\* and credits of the same account, and two lines of one entry on one account
LedgerBodies ==
    {[UserID |-> "u1", Date |-> 1, Currency |-> "USD", Memo |-> UserMemo,
      Lines |-> <<DraftLine("a1", SideDebit, 1), DraftLine("a2", SideCredit, 1)>>],
     [UserID |-> "u1", Date |-> 2, Currency |-> "USD", Memo |-> UserMemo,
      Lines |-> <<DraftLine("a1", SideDebit, 1), DraftLine("a1", SideDebit, 2),
                  DraftLine("a2", SideCredit, 3)>>],
     [UserID |-> "u1", Date |-> 1, Currency |-> "USD", Memo |-> UserMemo,
      Lines |-> <<DraftLine("a1", SideCredit, 2), DraftLine("a2", SideDebit, 2)>>],
     [UserID |-> "u2", Date |-> 1, Currency |-> "gbp", Memo |-> UserMemo,
      Lines |-> <<DraftLine("a3", SideDebit, 1), DraftLine("n2", SideCredit, 1)>>]}

\* the account the second user adds: a second account in that user's currency
itemSavings == AccountItem("Savings", "gbp", "cash", "Pocket")

\* reclassifyRequest lines of the listing model
LedgerReclassifyLines == <<DraftLine("a3", SideDebit, 2), DraftLine("n2", SideCredit, 2)>>

\* from and to of the queries: none, to only, from only
Windows == {<<NoTime, NoTime>>, <<NoTime, 1>>, <<2, NoTime>>}
\* limit parameters of the queries (0: absent)
LimitParams == {0, 1, 2}
\* user and account of the ledger queries; the last pair is an account of
\* another user
LedgerTargets == {<<"u1", "a1">>, <<"u2", "a3">>, <<"u1", "a3">>}

\* the pages a client has read so far in one scan: the query and response of
\* the last call and the items of all pages in the order received
Scan(op, query, resp, items) == [op |-> op, query |-> query, resp |-> resp, items |-> items]

\* POST /entries of the listing model; a client that posts lets go of its scan
ledgerPost(body) ==
    /\ Cardinality(DOMAIN entriesByID) < MaxLedgerEntries
    /\ LET e == toEntryDomain(body)
           st == CreateEntry(TheStore, e, NewEntryID(DOMAIN entriesByID))
       IN  /\ ValidateEntry(accountsByID, e) = ""
           /\ entriesByID' = st.entries
           /\ entryIndexByUser' = st.index
    /\ requests' = {}
    /\ UNCHANGED <<accountsByID, batchIdem, idempotencyByUser>>

\* POST /entries/reclassify of the listing model
ledgerReclassify(userID, entryID, date) ==
    /\ Cardinality(DOMAIN entriesByID) + 2 <= MaxLedgerEntries
    /\ LET rid == NewEntryID(DOMAIN entriesByID)
           cid == NewEntryID(DOMAIN entriesByID \cup {rid})
           r == Reclassify(TheStore, accountsByID, userID, entryID, date, << >>,
                           reclassifyLines(LedgerReclassifyLines), rid, cid)
       IN  /\ r.created # {}
           /\ entriesByID' = r.st.entries
           /\ entryIndexByUser' = r.st.index
    /\ requests' = {}
    /\ UNCHANGED <<accountsByID, batchIdem, idempotencyByUser>>

\* GET /entries without a cursor: the first page of a scan
listEntriesFirst(userID, window, limit) ==
    LET query == [UserID |-> userID, From |-> window[1], To |-> window[2],
                  Limit |-> limit, Cursor |-> NoCursor]
        resp == listEntries(TheStore, query)
    IN  /\ requests' = {Scan("listEntries", query, resp, resp.Items)}
        /\ UNCHANGED <<accountsByID, entriesByID, entryIndexByUser, batchIdem,
                       idempotencyByUser>>

\* GET /entries with the cursor of the page before: the next page of the scan
listEntriesNext ==
    \E r \in requests :
        /\ r.op = "listEntries"
        /\ r.resp.NextCursor # NoCursor
        /\ LET query == [r.query EXCEPT !.Cursor = r.resp.NextCursor]
               resp == listEntries(TheStore, query)
           IN  requests' = {Scan("listEntries", query, resp, r.items \o resp.Items)}
        /\ UNCHANGED <<accountsByID, entriesByID, entryIndexByUser, batchIdem,
                       idempotencyByUser>>

\* GET /accounts/{id}/ledger without a cursor
getAccountLedgerFirst(userID, accountID, window, limit) ==
    LET query == [UserID |-> userID, AccountID |-> accountID, From |-> window[1],
                  To |-> window[2], Limit |-> limit, Cursor |-> NoCursor]
        resp == getAccountLedger(TheStore, accountsByID, query)
    IN  /\ requests' = {Scan("getAccountLedger", query, resp, resp.Items)}
        /\ UNCHANGED <<accountsByID, entriesByID, entryIndexByUser, batchIdem,
                       idempotencyByUser>>

\* GET /accounts/{id}/ledger with the cursor of the page before
getAccountLedgerNext ==
    \E r \in requests :
        /\ r.op = "getAccountLedger"
        /\ r.resp.NextCursor # NoCursor
        /\ LET query == [r.query EXCEPT !.Cursor = r.resp.NextCursor]
               resp == getAccountLedger(TheStore, accountsByID, query)
           IN  requests' = {Scan("getAccountLedger", query, resp, r.items \o resp.Items)}
        /\ UNCHANGED <<accountsByID, entriesByID, entryIndexByUser, batchIdem,
                       idempotencyByUser>>

NextLedger ==
    \/ \E body \in LedgerBodies : ledgerPost(body)
    \/ \E entryID \in EntryIDs, date \in Dates : ledgerReclassify("u2", entryID, date)
    \/ callCreate([toAccountDomain(itemSavings) EXCEPT !.UserID = "u2"])
    \/ \E userID \in Users, window \in Windows, limit \in LimitParams :
          listEntriesFirst(userID, window, limit)
    \/ listEntriesNext
    \/ \E t \in LedgerTargets, window \in Windows, limit \in LimitParams :
          getAccountLedgerFirst(t[1], t[2], window, limit)
    \/ getAccountLedgerNext

SpecLedger == Init /\ [][NextLedger]_vars

\* ------------------------------------------------------------------------
\* GET /accounts/{id}/balance
\* ------------------------------------------------------------------------
\* user and account of the balance queries; the last pair is an account of
\* another user
BalanceTargets == {<<"u1", "a1">>, <<"u2", "a3">>, <<"u2", "n2">>, <<"u1", "a3">>}
\* as_of of the balance queries: absent, or one of the dates
AsOfParams == {NoTime} \cup Dates

\* GET /accounts/{id}/balance: [Status, Currency, BalanceMinor] for the query
\* [UserID, AccountID, AsOf]
getAccountBalance(st, accts, query) ==
    LET balance == AccountBalanceAsOf(st, query.UserID, query.AccountID, query.AsOf)
    IN  IF ~GetAccountFound(accts, query.UserID, query.AccountID)
        THEN [Status |-> StatusNotFound, Currency |-> "", BalanceMinor |-> 0]
        ELSE [Status |-> StatusOK, Currency |-> balance.Curr,
              BalanceMinor |-> MinorUnits(balance)]

\* one served balance query
ServedBalance(query, resp) == [op |-> "getAccountBalance", query |-> query, resp |-> resp]

getAccountBalanceCall(userID, accountID, asOf) ==
    LET query == [UserID |-> userID, AccountID |-> accountID, AsOf |-> asOf]
    IN  /\ requests' = {ServedBalance(query, getAccountBalance(TheStore, accountsByID, query))}
        /\ UNCHANGED <<accountsByID, entriesByID, entryIndexByUser, batchIdem,
                       idempotencyByUser>>

NextBalance ==
    \/ \E body \in LedgerBodies : ledgerPost(body)
    \/ callCreate([toAccountDomain(itemSavings) EXCEPT !.UserID = "u2"])
    \/ \E t \in BalanceTargets, asOf \in AsOfParams : getAccountBalanceCall(t[1], t[2], asOf)

SpecBalance == Init /\ [][NextBalance]_vars

\* ------------------------------------------------------------------------
\* POST /entries: validatePostEntry and its response
\* ------------------------------------------------------------------------
\* most entries ever persisted in one behaviour of the validated endpoint
MaxValidatedEntries == 2

\* mapValidationError: the code of a validation error, by its message
mapValidationError(err) ==
    CASE err = "" -> ""
      [] err = "at least 2 lines" -> "too_few_lines"
      [] err = "amount must be > 0" -> "invalid_amount"
      [] err = "account currency mismatch" -> "mixed_currency"
      [] err = "sum(debits) must equal sum(credits)" -> "unbalanced_entry"
      [] OTHER -> "validation_error"

\* "lines" arrays of the request bodies: valid for the first user, on an
\* account of each user, valid for the second user, on an account that exists
\* only once the second user has added it, on an account that never exists,
\* one line only, unbalanced, unbalanced on the second user's account
ValidatedLines ==
    {<<DraftLine("a1", SideDebit, 1), DraftLine("a2", SideCredit, 1)>>,
     <<DraftLine("a1", SideDebit, 1), DraftLine("a3", SideCredit, 1)>>,
     <<DraftLine("a3", SideDebit, 1), DraftLine("a3", SideCredit, 1)>>,
     <<DraftLine("a3", SideDebit, 1), DraftLine("n2", SideCredit, 1)>>,
     <<DraftLine("a1", SideDebit, 1), DraftLine("zz", SideCredit, 1)>>,
     <<DraftLine("a1", SideDebit, 1)>>,
     <<DraftLine("a1", SideDebit, 2), DraftLine("a2", SideCredit, 1)>>,
     <<DraftLine("a3", SideDebit, 2), DraftLine("a3", SideCredit, 1)>>}

\* request bodies of the validated endpoint
ValidatedBodies ==
    {[UserID |-> userID, Date |-> 1, Currency |-> currency, Memo |-> UserMemo,
      Lines |-> lines] :
        userID \in Users, currency \in RequestCurrencies, lines \in ValidatedLines}

\* one served POST /entries: the body, the entry built from it, and the
\* status, code and message of the response
ServedPost(body, entry, status, code, err) ==
    [op |-> "postEntry", body |-> body, entry |-> entry, status |-> status,
     code |-> code, err |-> err]

\* POST /v1/entries: validatePostEntry answers a validation error with 422,
\* else postEntry persists the entry and answers 201
postEntryValidated(body) ==
    LET e == toEntryDomain(body)
        err == ValidateEntry(accountsByID, e)
        st == CreateEntry(TheStore, e, NewEntryID(DOMAIN entriesByID))
    IN  /\ Cardinality(DOMAIN entriesByID) < MaxValidatedEntries
        /\ IF err # ""
           THEN /\ requests' = {ServedPost(body, e, StatusUnprocessableEntity,
                                           mapValidationError(err), err)}
                /\ UNCHANGED <<entriesByID, entryIndexByUser>>
           ELSE /\ requests' = {ServedPost(body, e, StatusCreated, "", "")}
                /\ entriesByID' = st.entries
                /\ entryIndexByUser' = st.index
        /\ UNCHANGED <<accountsByID, batchIdem, idempotencyByUser>>

NextValidated ==
    \/ \E body \in ValidatedBodies : postEntryValidated(body)
    \/ callCreate([toAccountDomain(itemSavings) EXCEPT !.UserID = "u2"])
    \/ \E userID \in Users, entryID \in EntryIDs : reverseEntryWith(userID, entryID, 1)
    \/ \E userID \in Users, entryID \in EntryIDs, lines \in ValidatedLines :
          reclassifyEntryWith(userID, entryID, 1, << >>, lines)

SpecValidated == Init /\ [][NextValidated]_vars

\* ------------------------------------------------------------------------
\* service calls and their context
\* ------------------------------------------------------------------------
\* the context of a call is cancelled just before the call's cancelAt-th
\* Writer call; 0: it is never cancelled
CancelAt == 0..3

\* ctx.Err() of a cancelled context
Canceled == "context canceled"

\* EnsureAccountsBatch under a context cancelled at cancelAt: the service
\* hands ctx to the Repo and the Writer and never reads ctx.Err() or
\* ctx.Done(); the memory Store names the parameter _ in every method
EnsureAccountsBatchCtx(accts, userID, specs, cancelAt) ==
    EnsureAccountsBatch(accts, userID, specs, 0)

\* Reclassify under a context cancelled at cancelAt, in the same way
ReclassifyCtx(st, accts, userID, entryID, date, memo, newLines, rid, cid, cancelAt) ==
    Reclassify(st, accts, userID, entryID, date, memo, newLines, rid, cid)

\* "lines" of the reclassify requests: valid, one line only, unbalanced, on
\* an account that does not exist
ContextLines ==
    {<<DraftLine("a1", SideDebit, 1), DraftLine("a2", SideCredit, 1)>>,
     <<DraftLine("a1", SideDebit, 1)>>,
     <<DraftLine("a1", SideDebit, 2), DraftLine("a2", SideCredit, 1)>>,
     <<DraftLine("a1", SideDebit, 1), DraftLine("zz", SideCredit, 1)>>}

\* one served call: what it was called with, when its context was cancelled,
\* how many Writer calls stored something, and the error it returned
ServedCtx(op, userID, entryID, input, cancelAt, writes, err) ==
    [op |-> op, userID |-> userID, entryID |-> entryID, input |-> input,
     cancelAt |-> cancelAt, writes |-> writes, err |-> err]

callEnsureAccountsBatchCtx(body, cancelAt) ==
    LET specs == [i \in 1..Len(body) |-> toAccountDomain(body[i])]
        r == EnsureAccountsBatchCtx(accountsByID, BatchUser, specs, cancelAt)
    IN  /\ Cardinality(DOMAIN accountsByID) + Len(body) + 1 <= MaxAccounts
        /\ accountsByID' = r.accts
        /\ requests' = {ServedCtx("EnsureAccountsBatch", BatchUser, NilEntryID, body, cancelAt,
                                  Cardinality(DOMAIN r.accts \ DOMAIN accountsByID), r.err)}
        /\ UNCHANGED <<entriesByID, entryIndexByUser, batchIdem, idempotencyByUser>>

callReclassifyCtx(userID, entryID, lines, cancelAt) ==
    LET rid == NewEntryID(DOMAIN entriesByID)
        cid == NewEntryID(DOMAIN entriesByID \cup {rid})
        r == ReclassifyCtx(TheStore, accountsByID, userID, entryID, 1, << >>,
                           reclassifyLines(lines), rid, cid, cancelAt)
    IN  /\ Cardinality(DOMAIN entriesByID) + 2 <= MaxEntries
        /\ entriesByID' = r.st.entries
        /\ entryIndexByUser' = r.st.index
        /\ requests' = {ServedCtx("Reclassify", userID, entryID, lines, cancelAt,
                                  Cardinality(r.created), r.err)}
        /\ UNCHANGED <<accountsByID, batchIdem, idempotencyByUser>>

NextContext ==
    \/ \E body \in LedgerBodies : ledgerPost(body)
    \/ \E body \in AccountBatches, cancelAt \in CancelAt :
          callEnsureAccountsBatchCtx(body, cancelAt)
    \/ \E userID \in Users, entryID \in EntryIDs, lines \in ContextLines,
          cancelAt \in CancelAt :
          callReclassifyCtx(userID, entryID, lines, cancelAt)

SpecContext == Init /\ [][NextContext]_vars

\* ------------------------------------------------------------------------
\* journal service: ReverseEntry and Reclassify calls in flight together
\* ------------------------------------------------------------------------
\* the services the calls are made on
RaceOps == {"ReverseEntry", "Reclassify"}

\* "lines" of the Reclassify calls
RaceLines == <<DraftLine("a1", SideDebit, 1), DraftLine("a2", SideCredit, 1)>>

\* the result of Repo.EntryByID when the entry is not found
NoEntry == << >>

\* ReverseEntry / Reclassify up to the return of their first Repo call,
\* s.repo.EntryByID, made under the store's read lock; during holds the calls
\* that had not returned when this one began
beginCall(op, userID, entryID) ==
    LET found == GetEntryFound(TheStore, userID, entryID)
    IN  /\ Cardinality(requests) < MaxRequests
        /\ requests' = requests \cup
              {[id |-> Cardinality(requests) + 1, op |-> op, userID |-> userID,
                entryID |-> entryID,
                during |-> {q.id : q \in {q0 \in requests : q0.pc # "done"}},
                orig |-> IF found THEN entriesByID[entryID] ELSE NoEntry,
                pc |-> IF ~found THEN "done"
                       ELSE IF op = "Reclassify" THEN "reverse" ELSE "create",
                err |-> IF found THEN "" ELSE "not_found",
                created |-> {}]}
        /\ UNCHANGED <<accountsByID, entriesByID, entryIndexByUser, batchIdem,
                       idempotencyByUser>>

\* Reclassify: the first Repo call of the ReverseEntry it makes
reverseRead(r) ==
    /\ r \in requests /\ r.pc = "reverse"
    /\ requests' = (requests \ {r}) \cup
          {IF GetEntryFound(TheStore, r.userID, r.entryID)
           THEN [r EXCEPT !.pc = "create", !.orig = entriesByID[r.entryID]]
           ELSE [r EXCEPT !.pc = "done", !.err = "not_found"]}
    /\ UNCHANGED <<accountsByID, entriesByID, entryIndexByUser, batchIdem,
                   idempotencyByUser>>

\* ReverseEntry from the building of the reversal to the return of
\* s.writer.CreateJournalEntry, made under the store's write lock
createReversal(r) ==
    /\ r \in requests /\ r.pc = "create"
    /\ Cardinality(DOMAIN entriesByID) < MaxEntries
    /\ LET rid == NewEntryID(DOMAIN entriesByID)
           st == CreateJournalEntry(TheStore, ReversalOf(r.orig, rid, r.userID, 1))
       IN  /\ entriesByID' = st.entries
           /\ entryIndexByUser' = st.index
           /\ requests' = (requests \ {r}) \cup
                 {[r EXCEPT !.pc = IF r.op = "Reclassify" THEN "correct" ELSE "done",
                            !.created = {rid}]}
    /\ UNCHANGED <<accountsByID, batchIdem, idempotencyByUser>>

\* Reclassify from the building of the correcting entry to its return:
\* ValidateEntry, then CreateEntry
createCorrection(r) ==
    /\ r \in requests /\ r.pc = "correct"
    /\ Cardinality(DOMAIN entriesByID) < MaxEntries
    /\ LET cid == NewEntryID(DOMAIN entriesByID)
           e == [UserID |-> r.userID, Date |-> 1, Currency |-> r.orig.Currency,
                 Memo |-> <<"reclassify of", r.orig.ID>>,
                 Lines |-> reclassifyLines(RaceLines)]
           verr == ValidateEntry(accountsByID, e)
           st == IF verr = "" THEN CreateEntry(TheStore, e, cid) ELSE TheStore
       IN  /\ entriesByID' = st.entries
           /\ entryIndexByUser' = st.index
           /\ requests' = (requests \ {r}) \cup
                 {[r EXCEPT !.pc = "done", !.err = verr,
                            !.created = IF verr = "" THEN @ \cup {cid} ELSE @]}
    /\ UNCHANGED <<accountsByID, batchIdem, idempotencyByUser>>

NextRace ==
    \/ \E body \in LedgerBodies :
          postEntryWith(body.UserID, body.Currency, body.Date, body.Lines)
    \/ \E op \in RaceOps, userID \in Users, entryID \in EntryIDs :
          beginCall(op, userID, entryID)
    \/ \E r \in requests : reverseRead(r)
    \/ \E r \in requests : createReversal(r)
    \/ \E r \in requests : createCorrection(r)

SpecRace == Init /\ [][NextRace]_vars

\* ------------------------------------------------------------------------
\* account service: Create, EnsureOpeningBalanceAccount and
\* EnsureAccountsBatch calls in flight together (memory Store)
\* ------------------------------------------------------------------------
\* the calls made: EnsureOpeningBalanceAccount(u1, USD), Create of an account
\* and of a second one with the same path and currency, and a batch of one
\* item with that path and currency
AccountRaceCalls ==
    {<<"EnsureOpeningBalanceAccount",
       [toAccountDomain(AccountItem("Opening Balances", "usd", "opening_balances", "System"))
           EXCEPT !.UserID = BatchUser, !.Type = "equity"]>>,
     <<"Create", [toAccountDomain(itemPocket) EXCEPT !.UserID = BatchUser]>>,
     <<"Create", [toAccountDomain(itemPocketAgain) EXCEPT !.UserID = BatchUser]>>,
     <<"EnsureAccountsBatch", toAccountDomain(itemPocket)>>}

\* where a call goes once its EnsureOpeningBalanceAccount has returned: the
\* call of EnsureOpeningBalanceAccount itself returns, Create (also the Create
\* the batch makes for its item) lists the accounts for its uniqueness check,
\* the batch lists them for its conflict loop
AfterEnsure(r) ==
    IF r.op = "EnsureOpeningBalanceAccount" THEN "done"
    ELSE IF r.op = "Create" \/ r.stage = "item" THEN "list"
    ELSE "batch_list"

\* the three operations up to their first Repo call: the argument checks,
\* the normalization and ValidateCreate
beginAccountCall(op, accountIn) ==
    LET account == IF op = "EnsureAccountsBatch" THEN NormalizeSpec(accountIn, BatchUser)
                   ELSE [accountIn EXCEPT !.Currency = IF @ # "" THEN ToUpper(@) ELSE @]
        verr == IF op = "EnsureOpeningBalanceAccount" THEN "" ELSE ValidateCreate(account)
    IN  /\ Cardinality(requests) < MaxRequests
        /\ requests' = requests \cup
              {[id |-> Cardinality(requests) + 1, op |-> op, account |-> account,
                during |-> {q.id : q \in {q0 \in requests : q0.pc # "done"}},
                stage |-> "call",
                pc |-> IF verr # "" THEN "done" ELSE "ob_list",
                err |-> verr, created |-> {}]}
        /\ UNCHANGED <<accountsByID, entriesByID, entryIndexByUser, batchIdem,
                       idempotencyByUser>>

\* EnsureOpeningBalanceAccount: s.repo.ListAccounts and the search for the
\* opening-balances account of the currency
ensureList(r) ==
    /\ r \in requests /\ r.pc = "ob_list"
    /\ LET found == \E a \in ListAccounts(accountsByID, r.account.UserID) :
                       /\ EqualFold(a.Currency, ToUpper(r.account.Currency))
                       /\ normalizedPathString(a) = <<"equity", "opening_balances">>
       IN  requests' = (requests \ {r}) \cup
              {[r EXCEPT !.pc = IF found THEN AfterEnsure(r) ELSE "ob_write"]}
    /\ UNCHANGED <<accountsByID, entriesByID, entryIndexByUser, batchIdem,
                   idempotencyByUser>>

\* EnsureOpeningBalanceAccount: s.writer.CreateAccount of the new system
\* account, under the store's write lock
ensureWrite(r) ==
    /\ r \in requests /\ r.pc = "ob_write"
    /\ Cardinality(DOMAIN accountsByID) < MaxAccounts
    /\ LET a == [ID |-> NewAccountID(accountsByID), UserID |-> r.account.UserID,
                 Name |-> "Opening Balances", Currency |-> ToUpper(r.account.Currency),
                 Type |-> "equity", Group |-> "opening_balances", Vendor |-> "System",
                 System |-> TRUE, Active |-> TRUE]
           w == WriterCreateAccount(accountsByID, a, 1, 0)
       IN  /\ accountsByID' = w.accts
           /\ requests' = (requests \ {r}) \cup
                 {[r EXCEPT !.pc = AfterEnsure(r),
                            !.created = IF r.op = "EnsureOpeningBalanceAccount"
                                        THEN {a.ID} ELSE @]}
    /\ UNCHANGED <<entriesByID, entryIndexByUser, batchIdem, idempotencyByUser>>

\* EnsureAccountsBatch: s.repo.ListAccounts and the conflict loop; without
\* conflict the fallback calls Create for the item
batchList(r) ==
    /\ r \in requests /\ r.pc = "batch_list"
    /\ LET cerrs == ConflictLoop(<<r.account>>, ListAccounts(accountsByID, r.account.UserID),
                                 r.account.UserID, 1, {}, << >>)
       IN  requests' = (requests \ {r}) \cup
              {IF Len(cerrs) > 0 THEN [r EXCEPT !.pc = "done", !.err = "conflict"]
               ELSE [r EXCEPT !.pc = "ob_list", !.stage = "item"]}
    /\ UNCHANGED <<accountsByID, entriesByID, entryIndexByUser, batchIdem,
                   idempotencyByUser>>

\* Create: s.repo.ListAccounts and the uniqueness check
createList(r) ==
    /\ r \in requests /\ r.pc = "list"
    /\ LET exists == \E a \in ListAccounts(accountsByID, r.account.UserID) :
                        /\ normalizedPathString(a) = normalizedPathString(r.account)
                        /\ EqualFold(a.Currency, r.account.Currency)
       IN  requests' = (requests \ {r}) \cup
              {IF exists
               THEN [r EXCEPT !.pc = "done", !.err = "account path already exists for user"]
               ELSE [r EXCEPT !.pc = "write"]}
    /\ UNCHANGED <<accountsByID, entriesByID, entryIndexByUser, batchIdem,
                   idempotencyByUser>>

\* Create: s.writer.CreateAccount of the new account, under the store's
\* write lock
createWrite(r) ==
    /\ r \in requests /\ r.pc = "write"
    /\ Cardinality(DOMAIN accountsByID) < MaxAccounts
    /\ LET accNew == NewAccount(accountsByID, r.account)
           w == WriterCreateAccount(accountsByID, accNew, 1, 0)
       IN  /\ accountsByID' = w.accts
           /\ requests' = (requests \ {r}) \cup
                 {[r EXCEPT !.pc = "done", !.created = {accNew.ID}]}
    /\ UNCHANGED <<entriesByID, entryIndexByUser, batchIdem, idempotencyByUser>>

NextAccountRace ==
    \/ \E call \in AccountRaceCalls : beginAccountCall(call[1], call[2])
    \/ \E r \in requests : ensureList(r)
    \/ \E r \in requests : ensureWrite(r)
    \/ \E r \in requests : batchList(r)
    \/ \E r \in requests : createList(r)
    \/ \E r \in requests : createWrite(r)

SpecAccountRace == Init /\ [][NextAccountRace]_vars

\* ------------------------------------------------------------------------
\* POST /entries with an Idempotency-Key: requests in flight together
\* ------------------------------------------------------------------------
\* postEntry up to the return of s.idemStore.GetEntryByIdempotencyKey, made
\* under the store's read lock; during holds the requests that had not been
\* answered when this one arrived
keyedLookup(idemKey, body) ==
    LET entry == toEntryDomain(body)
        prev == ResolveEntryByIdempotencyKey(idempotencyByUser, entriesByID,
                                             entry.UserID, idemKey)
    IN  /\ Cardinality(requests) < MaxRequests
        /\ ValidateEntry(accountsByID, entry) = ""
        /\ requests' = requests \cup
              {[id |-> Cardinality(requests) + 1, op |-> "postEntry", key |-> idemKey,
                body |-> body,
                during |-> {q.id : q \in {q0 \in requests : q0.pc # "done"}},
                pc |-> IF prev.found THEN "done" ELSE "create",
                status |-> IF prev.found THEN StatusOK ELSE 0,
                entry |-> prev.id]}
        /\ UNCHANGED <<accountsByID, entriesByID, entryIndexByUser, batchIdem,
                       idempotencyByUser>>

\* postEntry: s.svc.CreateEntry
keyedCreate(r) ==
    /\ r \in requests /\ r.pc = "create"
    /\ Cardinality(DOMAIN entriesByID) < MaxKeyedEntries
    /\ LET entryID == NewEntryID(DOMAIN entriesByID)
           st == CreateEntry(TheStore, toEntryDomain(r.body), entryID)
       IN  /\ entriesByID' = st.entries
           /\ entryIndexByUser' = st.index
           /\ requests' = (requests \ {r}) \cup {[r EXCEPT !.pc = "save", !.entry = entryID]}
    /\ UNCHANGED <<accountsByID, batchIdem, idempotencyByUser>>

\* postEntry: s.idemStore.SaveIdempotencyKey, whose result is dropped, and
\* the 201 response with the entry this request saved
keyedSave(r) ==
    /\ r \in requests /\ r.pc = "save"
    /\ idempotencyByUser' = SaveEntryIdempotencyKey(idempotencyByUser, r.body.UserID,
                                                    r.key, r.entry)
    /\ requests' = (requests \ {r}) \cup
          {[r EXCEPT !.pc = "done", !.status = StatusCreated]}
    /\ UNCHANGED <<accountsByID, entriesByID, entryIndexByUser, batchIdem>>

NextKeyedRace ==
    \/ \E idemKey \in Keys, body \in KeyedBodies : keyedLookup(idemKey, body)
    \/ \E r \in requests : keyedCreate(r)
    \/ \E r \in requests : keyedSave(r)

SpecKeyedRace == Init /\ [][NextKeyedRace]_vars

\* ------------------------------------------------------------------------
\* GET /trial-balance
\* ------------------------------------------------------------------------
\* the loop of TrialBalance over the lines of the entries, in order: the
\* account's amount starts at zero in the currency of its first line; Add and
\* Sub fail on an amount of another currency and the amount then stays
RECURSIVE TrialLoop(_, _, _)
TrialLoop(lines, i, out) ==
    IF i > Len(lines) THEN out
    ELSE LET ln == lines[i]
             cur == IF ln.AccountID \in DOMAIN out THEN out[ln.AccountID]
                    ELSE NewAmountFromMinorUnits(ln.Amount.Curr, 0)
             net == IF ln.Amount.Curr # cur.Curr THEN cur
                    ELSE IF ln.Side = SideDebit
                    THEN [cur EXCEPT !.Units = @ + ln.Amount.Units]
                    ELSE IF ln.Side = SideCredit
                    THEN [cur EXCEPT !.Units = @ - ln.Amount.Units]
                    ELSE cur
         IN  TrialLoop(lines, i + 1,
                       [a \in DOMAIN out \cup {ln.AccountID} |->
                           IF a = ln.AccountID THEN net ELSE out[a]])

\* the lines of the entries, entry after entry
RECURSIVE LinesOf(_, _)
LinesOf(entries, i) ==
    IF i > Len(entries) THEN << >> ELSE entries[i].Lines \o LinesOf(entries, i + 1)

\* TrialBalance: the net amount of every account a line up to asOf touches
TrialBalance(st, userID, asOf) ==
    LET entries == SelectSeq(EntriesByUserID(st, userID),
                             LAMBDA e : ~(asOf # NoTime /\ e.Date > asOf))
    IN  TrialLoop(LinesOf(entries, 1), 1, << >>)

\* GET /trial-balance: one row per account of the map TrialBalance returns
callTrialBalance(userID, asOf) ==
    /\ requests' = {[op |-> "trialBalance", userID |-> userID, asOf |-> asOf,
                     nets |-> TrialBalance(TheStore, userID, asOf)]}
    /\ UNCHANGED <<accountsByID, entriesByID, entryIndexByUser, batchIdem,
                   idempotencyByUser>>

\* reclassifyRequest lines for the second user's entry: the accounts of the
\* entry again, or one of them and the account Create added before Savings
TrialReclassifyLines ==
    {LedgerReclassifyLines,
     <<DraftLine("a3", SideDebit, 2), DraftLine("n1", SideCredit, 2)>>}

NextTrial ==
    \/ \E body \in LedgerBodies : ledgerPost(body)
    \/ \E userID \in Users, entryID \in EntryIDs, date \in Dates :
          reverseEntryWith(userID, entryID, date)
    \/ \E entryID \in EntryIDs, date \in Dates, lines \in TrialReclassifyLines :
          reclassifyEntryWith("u2", entryID, date, << >>, lines)
    \/ callCreate([toAccountDomain(itemSavings) EXCEPT !.UserID = "u2"])
    \/ \E userID \in Users, asOf \in AsOfParams : callTrialBalance(userID, asOf)

SpecTrial == Init /\ [][NextTrial]_vars

\* ------------------------------------------------------------------------
\* journal service: ValidateEntry called on its own
\* ------------------------------------------------------------------------
\* the lines the candidate entries draw from: valid lines, an amount at the
\* integer's maximum, an account that does not exist, a zero amount, a side
\* that is neither debit nor credit, no account, another user's account
OrderLineKinds ==
    <<DraftLine("a1", SideDebit, 1), DraftLine("a2", SideCredit, 1),
      DraftLine("a1", SideDebit, MaxInt), DraftLine("zz", SideDebit, 2),
      DraftLine("a1", SideDebit, 0), DraftLine("a1", "both", 1),
      DraftLine(NilUUID, SideDebit, 1), DraftLine("a3", SideCredit, 1)>>

\* candidate entries: with and without a user and a currency, of up to
\* MaxLines lines (one representative per multiset, as in DraftLines)
OrderEntries ==
    {toEntryDomain([UserID |-> userID, Date |-> 1, Currency |-> currency,
                    Memo |-> << >>, Lines |-> lines]) :
        userID \in {NilUUID, "u1"}, currency \in {"", "USD", "gbp"},
        lines \in UNION {{[j \in 1..n |-> OrderLineKinds[f[j]]] :
                            f \in {g \in [1..n -> 1..Len(OrderLineKinds)] :
                                      \A j \in 1..(n - 1) : g[j] <= g[j + 1]}} :
                         n \in 0..MaxLines}}

\* one call of ValidateEntry on the current accounts; it changes nothing
callValidateEntry(entry) ==
    /\ requests' = {[op |-> "ValidateEntry", entry |-> entry,
                     err |-> ValidateEntry(accountsByID, entry)]}
    /\ UNCHANGED <<accountsByID, entriesByID, entryIndexByUser, batchIdem,
                   idempotencyByUser>>

NextOrder ==
    \/ \E entry \in OrderEntries : callValidateEntry(entry)
    \/ callCreate([toAccountDomain(itemSavings) EXCEPT !.UserID = "u2"])

SpecOrder == Init /\ [][NextOrder]_vars

\* ------------------------------------------------------------------------
\* memory.Store: batch transactions and the calls that read beside them
\* ------------------------------------------------------------------------
\* most transactions begun, and most items of one kind staged in one
MaxTx == 2
MaxStaged == 2
MaxStagedEntries == 1

\* the accounts staged: a new path, the path of the seeded account a1, and
\* the new path again under another id
TxAccounts ==
    {[SeedAccounts["a1"] EXCEPT !.ID = "n1", !.Name = "Pocket", !.Vendor = "Pocket"],
     [SeedAccounts["a1"] EXCEPT !.ID = "n2", !.Name = "Wallet 2"],
     [SeedAccounts["a1"] EXCEPT !.ID = "n3", !.Name = "Pocket 2", !.Vendor = "pocket"]}

\* the batchTx objects among the call records
Txs == {r \in requests : r.op = "tx"}
OpenTxs == {t \in Txs : t.pc = "open"}

\* identifiers of the items staged in tx
StagedAccountIDs(tx) == {tx.accounts[i].ID : i \in 1..Len(tx.accounts)}
StagedEntryIDs(tx) == {tx.entries[i].ID : i \in 1..Len(tx.entries)}

\* third loop of Commit: every staged entry into entriesByID and the index
RECURSIVE ApplyEntries(_, _, _)
ApplyEntries(st, entries, i) ==
    IF i > Len(entries) THEN st
    ELSE ApplyEntries(CreateJournalEntry(st, entries[i]), entries, i + 1)

\* a Commit that checks and applies the accounts one by one, then the entries
RECURSIVE CommitLoop(_, _, _, _)
CommitLoop(accts, st, tx, i) ==
    IF i > Len(tx.accounts)
    THEN [accts |-> accts, st |-> ApplyEntries(st, tx.entries, 1), err |-> ""]
    ELSE IF \E id \in DOMAIN accts :
                /\ accts[id].UserID = tx.accounts[i].UserID
                /\ accts[id].Currency = tx.accounts[i].Currency
                /\ Path(accts[id]) = Path(tx.accounts[i])
    THEN [accts |-> accts, st |-> st, err |-> "conflict"]
    ELSE CommitLoop(
             [id \in DOMAIN accts \cup {tx.accounts[i].ID} |->
                 IF id = tx.accounts[i].ID THEN tx.accounts[i] ELSE accts[id]],
             st, tx, i + 1)

\* Commit as it would be if it checked and applied the accounts one by one
CommitOneByOne(accts, st, tx) == CommitLoop(accts, st, tx, 1)

\* batchTx.Commit, the whole of it under s.mu.Lock: ErrConflict when an
\* existing account has the user, currency and path of a staged one, before
\* anything is applied; else all staged accounts, then all staged entries
Commit(accts, st, tx) ==
    IF \E j \in 1..Len(tx.accounts) : \E id \in DOMAIN accts :
            /\ accts[id].UserID = tx.accounts[j].UserID
            /\ accts[id].Currency = tx.accounts[j].Currency
            /\ Path(accts[id]) = Path(tx.accounts[j])
    THEN [accts |-> accts, st |-> st, err |-> "conflict"]
    ELSE [accts |-> [id \in DOMAIN accts \cup StagedAccountIDs(tx) |->
                        IF id \in StagedAccountIDs(tx)
                        THEN tx.accounts[CHOOSE j \in 1..Len(tx.accounts) :
                                            /\ tx.accounts[j].ID = id
                                            /\ \A k \in (j + 1)..Len(tx.accounts) :
                                                  tx.accounts[k].ID # id]
                        ELSE accts[id]],
          st |-> ApplyEntries(st, tx.entries, 1),
          err |-> ""]

\* a batchTx or a finished read call; one shape for both
TxRecord(id, op, accounts, entries, pc, seenAccounts, seenEntries, txs) ==
    [id |-> id, op |-> op, accounts |-> accounts, entries |-> entries, pc |-> pc,
     seenAccounts |-> seenAccounts, seenEntries |-> seenEntries, txs |-> txs]

\* Store.BeginTx
BeginTx ==
    /\ Cardinality(Txs) < MaxTx
    /\ requests' = requests \cup
          {TxRecord(Cardinality(Txs) + 1, "tx", << >>, << >>, "open", {}, {}, {})}
    /\ UNCHANGED <<accountsByID, entriesByID, entryIndexByUser, batchIdem,
                   idempotencyByUser>>

\* batchTx.CreateAccount: appended to the transaction's own slice
txCreateAccount(tx, a) ==
    /\ tx.pc = "open"
    /\ Len(tx.accounts) < MaxStaged
    /\ a.ID \notin UNION {StagedAccountIDs(t) : t \in Txs}
    /\ requests' = (requests \ {tx}) \cup {[tx EXCEPT !.accounts = Append(@, a)]}
    /\ UNCHANGED <<accountsByID, entriesByID, entryIndexByUser, batchIdem,
                   idempotencyByUser>>

\* batchTx.CreateJournalEntry: appended to the transaction's own slice
txCreateJournalEntry(tx, date) ==
    LET used == DOMAIN entriesByID \cup UNION {StagedEntryIDs(t) : t \in Txs}
        e == [ID |-> NewEntryID(used), UserID |-> "u1", Date |-> date, Currency |-> "USD",
              Memo |-> UserMemo, IsReversed |-> FALSE,
              Lines |-> toEntryDomain(
                            [UserID |-> "u1", Date |-> date, Currency |-> "USD",
                             Memo |-> UserMemo,
                             Lines |-> <<DraftLine("a1", SideDebit, 1),
                                         DraftLine("a2", SideCredit, 1)>>]).Lines]
    IN  /\ tx.pc = "open"
        /\ Len(tx.entries) < MaxStagedEntries
        /\ Cardinality(used) < MaxEntries
        /\ requests' = (requests \ {tx}) \cup {[tx EXCEPT !.entries = Append(@, e)]}
        /\ UNCHANGED <<accountsByID, entriesByID, entryIndexByUser, batchIdem,
                       idempotencyByUser>>

\* one call of batchTx.Commit
txCommit(tx) ==
    LET r == Commit(accountsByID, TheStore, tx)
    IN  /\ tx.pc = "open"
        /\ accountsByID' = r.accts
        /\ entriesByID' = r.st.entries
        /\ entryIndexByUser' = r.st.index
        /\ requests' = (requests \ {tx}) \cup
              {[tx EXCEPT !.pc = IF r.err = "" THEN "committed" ELSE r.err]}
        /\ UNCHANGED <<batchIdem, idempotencyByUser>>

\* batchTx.Rollback: nothing to undo
txRollback(tx) ==
    /\ tx.pc = "open"
    /\ requests' = (requests \ {tx}) \cup {[tx EXCEPT !.pc = "rolledback"]}
    /\ UNCHANGED <<accountsByID, entriesByID, entryIndexByUser, batchIdem,
                   idempotencyByUser>>

\* a call of AccountsByUserID or EntriesByUserID under s.mu.RLock; the record
\* keeps what the call saw and the transactions as they stood
readStore(op) ==
    /\ requests' = {r \in requests : r.op = "tx"} \cup
          {TxRecord(0, op, << >>, << >>, "done",
                    IF op = "AccountsByUserID"
                    THEN {a.ID : a \in ListAccounts(accountsByID, "u1")} ELSE {},
                    IF op = "EntriesByUserID"
                    THEN {EntriesByUserID(TheStore, "u1")[i].ID :
                             i \in 1..Len(EntriesByUserID(TheStore, "u1"))}
                    ELSE {},
                    Txs)}
    /\ UNCHANGED <<accountsByID, entriesByID, entryIndexByUser, batchIdem,
                   idempotencyByUser>>

NextTx ==
    \/ BeginTx
    \/ \E tx \in Txs, a \in TxAccounts : txCreateAccount(tx, a)
    \/ \E tx \in Txs : txCreateJournalEntry(tx, 1)
    \/ \E tx \in Txs : txCommit(tx)
    \/ \E tx \in Txs : txRollback(tx)
    \/ \E op \in {"AccountsByUserID", "EntriesByUserID"} : readStore(op)

SpecTx == Init /\ [][NextTx]_vars

\* ------------------------------------------------------------------------
\* Properties of the entry endpoints
\* ------------------------------------------------------------------------
\* e is recorded as a reversal of entry id (the memo ReverseEntry writes)
IsReversalOf(e, id) ==
    Len(e.Memo) >= 2 /\ e.Memo[1] = "reversal of" /\ e.Memo[2] = id

\* reversal entries persisted for entry id
ReversalsOf(entries, id) == {r \in DOMAIN entries : IsReversalOf(entries[r], id)}

\* exact (unbounded) total of the amounts on one side of an entry
RECURSIVE SideTotal(_, _, _)
SideTotal(lines, side, i) ==
    IF i > Len(lines) THEN 0
    ELSE (IF lines[i].Side = side THEN lines[i].Amount.Units ELSE 0)
            + SideTotal(lines, side, i + 1)

\* C1: every persisted journal entry has the exact sum of its debit amounts
\* equal to the exact sum of its credit amounts, in minor units.
C1_BalanceInvariant ==
    \A id \in DOMAIN entriesByID :
        SideTotal(entriesByID[id].Lines, SideDebit, 1)
            = SideTotal(entriesByID[id].Lines, SideCredit, 1)

\* accounts on the lines of entry id that no entry other than id and the
\* reversals of id touches
TouchedOnlyBy(entries, id) ==
    {a \in {entries[id].Lines[i].AccountID : i \in 1..Len(entries[id].Lines)} :
        \A other \in DOMAIN entries :
            (\E i \in 1..Len(entries[other].Lines) : entries[other].Lines[i].AccountID = a)
                => (other = id \/ IsReversalOf(entries[other], id))}

\* the lines of r are the lines of e with every side flipped
FlippedCopy(e, r) ==
    /\ Len(r.Lines) = Len(e.Lines)
    /\ \A i \in 1..Len(e.Lines) :
          /\ r.Lines[i].AccountID = e.Lines[i].AccountID
          /\ r.Lines[i].Amount = e.Lines[i].Amount
          /\ r.Lines[i].Side # e.Lines[i].Side

\* C2: a reversal of entry E carries E's (account, amount) lines with every
\* side flipped, and once E has been reversed the balance of every account
\* touched only by E is what it was before E was created, which is zero.
C2_ReversalRestoresBalance ==
    \A id \in DOMAIN entriesByID :
        ReversalsOf(entriesByID, id) # {} =>
            /\ \A r \in ReversalsOf(entriesByID, id) :
                  FlippedCopy(entriesByID[id], entriesByID[r])
            /\ \A a \in TouchedOnlyBy(entriesByID, id) :
                  MinorUnits(AccountBalance(TheStore, entriesByID[id].UserID, a)) = 0

\* C3: a reverse request for an entry that already has a reversal never
\* succeeds, so it persists no further entry.
C3_ReverseAtMostOnce ==
    [][\A entryID \in DOMAIN entriesByID :
          ReversalsOf(entriesByID, entryID) # {} =>
              \A userID \in Users, date \in Dates :
                  ~reverseEntryWith(userID, entryID, date)]_vars

\* C4: a reclassify request for an entry that already has a reversal persists
\* neither a reversal entry nor a correcting entry.
C4_ReclassifyOfReversedRejected ==
    [][\A entryID \in DOMAIN entriesByID :
          ReversalsOf(entriesByID, entryID) # {} =>
              \A userID \in Users, date \in Dates, lines \in DraftLines :
                  ~reclassifyEntryWith(userID, entryID, date, << >>, lines)]_vars

\* C16: a successful reversal of entry E leaves E stored with is_reversed set.
C16_ReversedFlagSet ==
    [][\A userID \in Users, entryID \in DOMAIN entriesByID, date \in Dates :
          reverseEntryWith(userID, entryID, date) => entriesByID'[entryID].IsReversed]_vars

\* a reversal of entry id is persisted in this step
ReversedNow(id) ==
    \E r \in DOMAIN entriesByID' \ DOMAIN entriesByID : IsReversalOf(entriesByID'[r], id)

KeySeen(r) == r.key # "" /\ r.key \in DOMAIN idempotencyByUser[r.body.UserID]

\* C18: a keyed create whose key is already recorded for the user answers 200
\* with the entry the first create of that key persisted, and persists nothing;
\* any other create (no key, or a key not yet seen) answers 201 with a new
\* entry, which a key then stays bound to.
C18_KeyedCreateIdempotent ==
    [][\A r \in requests' :
          /\ KeySeen(r) =>
                /\ r.status = StatusOK
                /\ r.entry = entriesByID[idempotencyByUser[r.body.UserID][r.key]]
                /\ UNCHANGED <<entriesByID, entryIndexByUser, idempotencyByUser>>
          /\ ~KeySeen(r) =>
                /\ r.status = StatusCreated
                /\ r.entry.ID \notin DOMAIN entriesByID
                /\ DOMAIN entriesByID' = DOMAIN entriesByID \cup {r.entry.ID}
                /\ entriesByID'[r.entry.ID] = r.entry
                /\ r.key # "" => idempotencyByUser'[r.body.UserID][r.key] = r.entry.ID
                /\ r.key = "" => idempotencyByUser' = idempotencyByUser]_vars

\* C18 witness: a create repeated with a recorded key, and with another body,
\* has been answered 200 with the entry of the first create, and the user has
\* no entry of the repeated body's date.
C18_Witness ==
    \E r \in requests :
        /\ r.status = StatusOK /\ r.key # ""
        /\ r.entry.ID = idempotencyByUser[r.body.UserID][r.key]
        /\ r.entry.Date # r.body.Date
        /\ \A id \in DOMAIN entriesByID :
              entriesByID[id].UserID = r.body.UserID => entriesByID[id].Date # r.body.Date

\* entry has a line on an account that is not stored or is owned by another user
HasForeignLine(entry) ==
    \E i \in 1..Len(entry.Lines) :
        \/ entry.Lines[i].AccountID \notin DOMAIN accountsByID
        \/ accountsByID[entry.Lines[i].AccountID].UserID # entry.UserID

\* every line of every persisted entry is on a stored account of the entry's user
LinesOnOwnAccounts == \A id \in DOMAIN entriesByID : ~HasForeignLine(entriesByID[id])

\* C24: a POST /entries whose entry has a line on an account that does not
\* exist or belongs to another user is refused by ValidateEntry (422) and
\* persists nothing (requests' holds the call served by the step, if new), and every persisted entry, posted, reversing or
\* correcting, has all its lines on accounts of its own user.
C24_ForeignAccountRejected ==
    /\ []LinesOnOwnAccounts
    /\ [][\A r \in requests' :
             (r \notin requests /\ r.op = "postEntry" /\ HasForeignLine(r.entry)) =>
                 /\ r.status = StatusUnprocessableEntity
                 /\ r.err # ""
                 /\ UNCHANGED <<entriesByID, entryIndexByUser>>]_vars

\* C24 witness: a balanced two-line entry of the first user with one line on
\* the second user's account has been refused, and nothing is persisted
C24_Witness ==
    \E r \in requests :
        /\ r.op = "postEntry" /\ r.status = StatusUnprocessableEntity
        /\ r.err = "unknown or unauthorized accounts"
        /\ r.entry.UserID = "u1"
        /\ \E i \in 1..Len(r.entry.Lines) :
              /\ r.entry.Lines[i].AccountID \in DOMAIN accountsByID
              /\ accountsByID[r.entry.Lines[i].AccountID].UserID = "u2"
        /\ entriesByID = << >>

\* entry has a line on a stored account whose currency is not the entry's
HasMismatchedLine(entry) ==
    \E i \in 1..Len(entry.Lines) :
        /\ entry.Lines[i].AccountID \in DOMAIN accountsByID
        /\ accountsByID[entry.Lines[i].AccountID].Currency # entry.Currency

\* entry passes every rule of ValidateEntry that comes before the currency rule
PassesEarlierRules(entry) ==
    LET debits == {i \in 1..Len(entry.Lines) : entry.Lines[i].Side = SideDebit}
        credits == {i \in 1..Len(entry.Lines) : entry.Lines[i].Side = SideCredit}
        RECURSIVE Total(_)
        Total(S) == IF S = {} THEN 0
                    ELSE LET i == CHOOSE x \in S : TRUE
                         IN  MinorUnits(entry.Lines[i].Amount) + Total(S \ {i})
    IN  /\ entry.UserID # NilUUID /\ entry.Currency # ""
        /\ Len(entry.Lines) >= 2
        /\ \A i \in 1..Len(entry.Lines) : MinorUnits(entry.Lines[i].Amount) > 0
        /\ Total(debits) = Total(credits)
        /\ ~HasForeignLine(entry)

\* every line of every persisted entry is on an account in the entry's currency
LinesInEntryCurrency == \A id \in DOMAIN entriesByID : ~HasMismatchedLine(entriesByID[id])

Executed(r) == r.how = "miss" /\ r.pc \in {"store", "done"}

\* the request r becomes in this step, if the step runs its business logic
ExecutedNow(r) ==
    {r2 \in requests' : /\ r2.id = r.id /\ r2.key = r.key /\ r2.hash = r.hash
                        /\ r.pc = "execute" /\ r2.pc = "store"}

\* the requests that arrive in this step
Arrived ==
    {r \in requests' :
        ~\E r0 \in requests : r0.id = r.id /\ r0.key = r.key /\ r0.hash = r.hash}

\* some item of an accounts body fails ValidateCreate
HasInvalidItem(body) ==
    \E i \in 1..Len(body) :
        ValidateCreate(NormalizeSpec(toAccountDomain(body[i]), BatchUser)) # ""

\* some entry of an entries body fails ValidateEntry
HasInvalidEntry(body) ==
    \E i \in 1..Len(body) : ValidateEntry(accountsByID, toEntryDomain(body[i])) # ""

\* resp is a 422 carrying a record with the given code
HasErrorRecord(resp, code) ==
    /\ resp.status = StatusUnprocessableEntity
    /\ resp.payload[1] = "errors"
    /\ \E i \in 1..Len(resp.payload[2]) : resp.payload[2][i].Code = code

\* C5: the execution of a batch (accounts or entries) with an item that fails
\* validation persists nothing, neither account nor entry, and answers 422
\* with validation records.
C5_ValidationFailurePersistsNothing ==
    [][\A r \in requests : \A r2 \in ExecutedNow(r) :
          (\/ r.endpoint = "accounts" /\ HasInvalidItem(r.body)
           \/ r.endpoint = "entries" /\ HasInvalidEntry(r.body))
          => /\ accountsByID' = accountsByID
             /\ entriesByID' = entriesByID
             /\ entryIndexByUser' = entryIndexByUser
             /\ HasErrorRecord(r2.resp, "validation_error")]_vars

\* C5 witness: an accounts batch with one valid and one invalid item has been
\* executed and answered 422, and the valid item's account does not exist.
C5_Witness ==
    \E r \in requests :
        /\ r.endpoint = "accounts" /\ Executed(r) /\ HasInvalidItem(r.body)
        /\ Len(r.body) = 2 /\ ~HasInvalidItem(<<r.body[1]>>)
        /\ HasErrorRecord(r.resp, "validation_error")
        /\ \A id \in DOMAIN accountsByID : accountsByID[id].Name # r.body[1].Name

\* C6: of two requests with the same key and the same body, the later one
\* gets the status and body the earlier one got and does not run the business
\* logic.
C6_ReplayIdentical ==
    \A r1 \in requests, r2 \in requests :
        (/\ r1.key = r2.key /\ r1.hash = r2.hash /\ r1.id < r2.id
         /\ r1.pc \in {"store", "done"} /\ r2.pc \in {"store", "done"})
        => r2.how = "replay" /\ r2.resp = r1.resp

\* C7: of the requests with one key and one body at most one runs the
\* business logic.
C7_AtMostOneExecutes ==
    \A r1 \in requests, r2 \in requests :
        (r1.key = r2.key /\ r1.hash = r2.hash /\ Executed(r1) /\ Executed(r2)) => r1 = r2

\* C8: a request arriving with a key that is cached with another body hash is
\* answered 409 idempotency_mismatch at once; the step persists nothing and
\* leaves the cache as it was.
C8_MismatchRejected ==
    [][\A r \in Arrived :
          (r.key \in DOMAIN batchIdem /\ batchIdem[r.key].BodyHash # r.hash)
          => /\ r.pc = "done"
             /\ r.resp = writeErr(StatusConflict, "idempotency_mismatch", "")
             /\ accountsByID' = accountsByID
             /\ entriesByID' = entriesByID
             /\ entryIndexByUser' = entryIndexByUser
             /\ batchIdem' = batchIdem]_vars

\* C8 witness: a request has been answered 409 idempotency_mismatch while its
\* key is cached with the hash and the response of another body.
C8_Witness ==
    \E r \in requests :
        /\ r.pc = "done" /\ r.resp.status = StatusConflict
        /\ r.key \in DOMAIN batchIdem
        /\ batchIdem[r.key].BodyHash # r.hash
        /\ batchIdem[r.key].Status # StatusConflict

\* C9: the execution of an accounts batch that is answered with conflict
\* records creates no account at all.
C9_ConflictCreatesNoAccount ==
    [][\A r \in requests : \A r2 \in ExecutedNow(r) :
          (r.endpoint = "accounts" /\ HasErrorRecord(r2.resp, "conflict"))
          => accountsByID' = accountsByID]_vars

\* C10: the execution of an accounts batch that ends with a storage error
\* leaves none of the batch's items persisted.
C10_FailedBatchRolledBack ==
    [][\A r \in requests : \A r2 \in ExecutedNow(r) :
          (r.endpoint = "accounts" /\ r2.resp.status = StatusBadRequest)
          => \A id \in DOMAIN accountsByID' \ DOMAIN accountsByID :
                \A i \in 1..Len(r.body) : accountsByID'[id].Name # r.body[i].Name]_vars

\* ------------------------------------------------------------------------
\* Properties of the account service
\* ------------------------------------------------------------------------
\* the normalized path: lower-case type, lower-case group, slugified vendor
PathOf(a) == <<ToLower(a.Type), ToLower(a.Group), Slugify(a.Vendor)>>

\* no two accounts of one user have the same normalized path and currency
PathCurrencyUnique ==
    \A id1 \in DOMAIN accountsByID, id2 \in DOMAIN accountsByID :
        (/\ accountsByID[id1].UserID = accountsByID[id2].UserID
         /\ PathOf(accountsByID[id1]) = PathOf(accountsByID[id2])
         /\ ToUpper(accountsByID[id1].Currency) = ToUpper(accountsByID[id2].Currency))
        => id1 = id2

\* the call r was refused because of a path conflict
ConflictServed(r) ==
    \/ r.err = "account path already exists for user"
    \/ \E i \in 1..Len(r.errsList) : r.errsList[i].Code = "conflict"

\* the call r addresses a stored account as its owner
OwnCall(r) ==
    /\ r.account.ID \in DOMAIN accountsByID
    /\ accountsByID[r.account.ID].UserID = r.account.UserID

\* C11: after any sequence of Create, Update and batch-create calls made one
\* after another, a user's accounts have pairwise different (normalized path,
\* currency), and a call refused with a conflict changes no account.
C11_PathUniqueConflictChangesNothing ==
    /\ []PathCurrencyUnique
    /\ [][\A r \in requests' : ConflictServed(r) => accountsByID' = accountsByID]_vars

\* C19: Update and Deactivate called by the owner on a system account fail
\* with SystemAccount and leave the account as it was.
C19_SystemAccountRejectsMutation ==
    [][\A r \in requests' :
          (r.op \in {"Update", "Deactivate"} /\ OwnCall(r)
           /\ accountsByID[r.account.ID].System)
          => /\ r.err = "system_account"
             /\ accountsByID' = accountsByID]_vars

\* C19 witness: Deactivate of a system account has been refused with
\* SystemAccount and the account is still active.
C19_Witness ==
    \E r \in requests :
        /\ r.op = "Deactivate" /\ r.err = "system_account" /\ OwnCall(r)
        /\ accountsByID[r.account.ID].System
        /\ accountsByID[r.account.ID].Active

\* a differs from the stored account in type, currency or system flag
ChangesIdentity(a) ==
    \/ a.Type # accountsByID[a.ID].Type
    \/ a.Currency # accountsByID[a.ID].Currency
    \/ a.System # accountsByID[a.ID].System

OpeningAccounts(accts, userID, currency) ==
    {id \in DOMAIN accts :
        /\ accts[id].UserID = userID
        /\ accts[id].Currency = ToUpper(currency)
        /\ accts[id].Type = "equity" /\ accts[id].Group = "opening_balances"
        /\ accts[id].Vendor = "System" /\ accts[id].System /\ accts[id].Active}

\* C21: every call of EnsureOpeningBalanceAccount(user, currency) that returns
\* no error returns the one system opening-balances account (equity,
\* opening_balances, System, system, active) of that user and currency and
\* leaves exactly that one stored; if it was there before the call, the call
\* returns it and writes nothing.
C21_EnsureOpeningBalanceIdempotent ==
    [][\A r \in requests' :
          (r.op = "EnsureOpeningBalanceAccount" /\ r.err = "") =>
              /\ OpeningAccounts(accountsByID', r.userID, r.currency) = {r.acc.ID}
              /\ accountsByID'[r.acc.ID] = r.acc
              /\ OpeningAccounts(accountsByID, r.userID, r.currency) # {} =>
                    /\ accountsByID' = accountsByID
                    /\ r.acc.ID \in OpeningAccounts(accountsByID, r.userID, r.currency)]_vars

\* C21 witness: a call spelling the currency in lower case has returned the
\* account an earlier call created, and the user has one such account and
\* nothing else new
C21_Witness ==
    \E r \in requests :
        /\ r.op = "EnsureOpeningBalanceAccount" /\ r.err = ""
        /\ r.currency = "usd" /\ r.acc.Currency = "USD"
        /\ OpeningAccounts(accountsByID, r.userID, r.currency) = {r.acc.ID}
        /\ {id \in DOMAIN accountsByID : id \notin DOMAIN SeedAccounts} = {r.acc.ID}

\* C22: no step removes an account: every stored account stays stored under
\* its id for its owner (Store.GetAccount finds it), and a Deactivate that
\* succeeds was called on a non-system account and changes nothing but that
\* account's active flag, which it sets to false.
C22_AccountsNeverDeleted ==
    [][/\ \A id \in DOMAIN accountsByID :
             GetAccountFound(accountsByID', accountsByID[id].UserID, id)
       /\ \A r \in requests' :
             (r.op = "Deactivate" /\ r.err = "") =>
                 /\ OwnCall(r)
                 /\ ~accountsByID[r.account.ID].System
                 /\ accountsByID' =
                       [accountsByID EXCEPT ![r.account.ID].Active = FALSE]]_vars

\* C22 witness: a Deactivate has succeeded and the account is still found by
\* its owner, inactive
C22_Witness ==
    \E r \in requests :
        /\ r.op = "Deactivate" /\ r.err = ""
        /\ GetAccountFound(accountsByID, r.account.UserID, r.account.ID)
        /\ ~accountsByID[r.account.ID].Active

\* ------------------------------------------------------------------------
\* Properties of the listing endpoints
\* ------------------------------------------------------------------------
\* the entries of the scan's user that lie in the scan's window
WindowEntryIDs(r) ==
    {id \in DOMAIN entriesByID :
        /\ entriesByID[id].UserID = r.query.UserID
        /\ InWindow(entriesByID[id].Date, r.query.From, r.query.To)}

\* the lines (entry, position) of the scan's account that lie in the scan's window
WindowLines(r) ==
    {<<id, i>> \in WindowEntryIDs(r) \X (1..MaxLines) :
        /\ i <= Len(entriesByID[id].Lines)
        /\ entriesByID[id].Lines[i].AccountID = r.query.AccountID}

\* the scan has read its last page
ScanDone(r) == r.resp.NextCursor = NoCursor

\* C14: a scan of GET /entries that followed the cursors until none was
\* returned, the entries unchanged meanwhile, has read exactly the user's
\* entries (those of the window, if from or to was given), each once, in
\* ascending (date, id) order.
C14_ScanCompleteOnceInOrder ==
    \A r \in requests :
        (r.op = "listEntries" /\ ScanDone(r)) =>
            /\ {r.items[i].ID : i \in 1..Len(r.items)} = WindowEntryIDs(r)
            /\ \A i \in 1..Len(r.items) : r.items[i] = entriesByID[r.items[i].ID]
            /\ \A i \in 1..(Len(r.items) - 1) :
                  \/ r.items[i].Date < r.items[i + 1].Date
                  \/ /\ r.items[i].Date = r.items[i + 1].Date
                     /\ r.items[i].ID < r.items[i + 1].ID

\* C14 witness: a finished scan of several pages over all three entries of a
\* user, two of them of one date and not persisted in date order
C14_Witness ==
    \E r \in requests :
        /\ r.op = "listEntries" /\ ScanDone(r)
        /\ r.query.Cursor # NoCursor
        /\ r.query.From = NoTime /\ r.query.To = NoTime
        /\ Len(r.items) = MaxLedgerEntries
        /\ r.items[1].Date = r.items[2].Date
        /\ r.items[3].ID < r.items[2].ID

\* C15: a page of GET /entries or of the account ledger carries a next cursor
\* exactly if the pages read so far leave items of the listing unread, and the
\* cursor then names the last item of the page.
C15_CursorIffItemsRemain ==
    \A r \in requests :
        /\ r.op = "listEntries" =>
              /\ r.resp.NextCursor # NoCursor <=> Len(r.items) < Cardinality(WindowEntryIDs(r))
              /\ r.resp.NextCursor # NoCursor =>
                    r.resp.NextCursor = EncodeCursor(r.items[Len(r.items)].Date,
                                                     r.items[Len(r.items)].ID)
        /\ (r.op = "getAccountLedger" /\ r.resp.Status = StatusOK) =>
              /\ r.resp.NextCursor # NoCursor <=> Len(r.items) < Cardinality(WindowLines(r))
              /\ r.resp.NextCursor # NoCursor =>
                    r.resp.NextCursor = EncodeCursor(r.items[Len(r.items)].Date,
                                                     r.items[Len(r.items)].LineID)

\* C15 witness: the second page of a ledger read with limit 2 holds the last
\* two of four lines, a full page that is not truncated, and has no cursor
C15_Witness ==
    \E r \in requests :
        /\ r.op = "getAccountLedger" /\ r.resp.Status = StatusOK
        /\ r.query.Cursor # NoCursor /\ r.query.Limit = 2
        /\ Len(r.resp.Items) = 2 /\ Len(r.items) = 4
        /\ r.resp.NextCursor = NoCursor

\* r is a page, read or being scanned, of the ledger of an account of the user
LedgerServed(r) == r.op = "getAccountLedger" /\ r.resp.Status = StatusOK

\* item is the last of the account's lines of its date in the listing order
LastOfDate(r, item) ==
    \A l \in WindowLines(r) :
        entriesByID[l[1]].Date = item.Date =>
            \/ l[1] < item.EntryID
            \/ l[1] = item.EntryID /\ LineID(l[1], l[2]) <= item.LineID

\* C12: on every page of an account's ledger, first or reached through a
\* cursor, the running balance after a line that ends its date equals
\* AccountBalance of the account as of that date (lines of one date are all
\* part of the balance as of that date, so the prefixes compared are those
\* that end with the last line of a date; no from is given).
C12_RunningBalanceIsBalanceAsOf ==
    \A r \in requests :
        (LedgerServed(r) /\ r.query.From = NoTime) =>
            \A k \in 1..Len(r.items) :
                LastOfDate(r, r.items[k]) =>
                    r.items[k].RunningMinor =
                        MinorUnits(AccountBalanceAsOf(TheStore, r.query.UserID,
                                                      r.query.AccountID, r.items[k].Date))

\* C13: the running balance on the last line of a ledger read in one page,
\* with no from, to or cursor, equals AccountBalance of the account with no
\* as_of.
C13_FullScanEndsAtAccountBalance ==
    \A r \in requests :
        (/\ LedgerServed(r) /\ ScanDone(r)
         /\ r.query.Cursor = NoCursor /\ r.query.From = NoTime /\ r.query.To = NoTime
         /\ Len(r.items) > 0) =>
            r.items[Len(r.items)].RunningMinor =
                MinorUnits(AccountBalance(TheStore, r.query.UserID, r.query.AccountID))

\* ------------------------------------------------------------------------
\* Properties of the balance endpoint
\* ------------------------------------------------------------------------
\* C23: every balance reported for an account of the caller carries the
\* currency stored on the account, whether or not the account has lines dated
\* on or before as_of.
C23_BalanceInAccountCurrency ==
    \A r \in requests :
        (r.op = "getAccountBalance" /\ r.resp.Status = StatusOK) =>
            r.resp.Currency = accountsByID[r.query.AccountID].Currency


\* ------------------------------------------------------------------------
\* Properties of the batch responses
\* ------------------------------------------------------------------------
\* the item indexes of the error records of a failure payload, in order
ErrorIndexes(payload) == [i \in 1..Len(payload[2]) |-> payload[2][i].Index]

\* C26: a batch response is a full success payload with every item of the
\* batch as created, or a full failure payload with exactly one error record
\* for each failing item index: no index repeated, no created items, never
\* a mix of the two.
C26_BatchResponseAllOrErrors ==
    \A r \in requests :
        /\ r.resp.status = StatusCreated =>
              /\ r.resp.payload[1] \in {"accounts", "entries"}
              /\ Len(r.resp.payload[2]) = Len(r.body)
        /\ r.resp.status = StatusUnprocessableEntity =>
              /\ r.resp.payload[1] = "errors"
              /\ Len(r.resp.payload[2]) > 0
              /\ \A i \in 1..Len(r.resp.payload[2]) :
                    ErrorIndexes(r.resp.payload)[i] \in 0..(Len(r.body) - 1)
              /\ \A i, j \in 1..Len(r.resp.payload[2]) :
                    ErrorIndexes(r.resp.payload)[i] = ErrorIndexes(r.resp.payload)[j] => i = j


\* the body of a request as the normalization of the idempotency protocol
\* leaves it: members by name, metadata by key, currency codes in uppercase
NormalizedBody(raw) ==
    [i \in 1..Len(raw) |-> [DecodeAccount(raw[i]) EXCEPT !.Currency = ToUpper(@)]]

\* C27: two batch requests whose bodies are equal after normalization (they
\* differ only in the order of the JSON members, the order of the metadata
\* keys or the letter case of currency codes) have the same body hash, and
\* with the key of a stored response for such a body the later request is
\* replayed, never answered idempotency_mismatch.
C27_NormalizedBodiesSameHash ==
    [][\A r \in Arrived : \A q \in requests :
          NormalizedBody(q.raw) = NormalizedBody(r.raw) =>
              /\ q.hash = r.hash
              /\ (/\ q.key = r.key
                  /\ r.key \in DOMAIN batchIdem
                  /\ batchIdem[r.key].BodyHash = q.hash) => r.how = "replay"]_vars

\* the same for bodies that differ in the order of the JSON members and of
\* the metadata keys only
MemberOrderSameHash ==
    [][\A r \in Arrived : \A q \in requests :
          DecodeAccounts(q.raw) = DecodeAccounts(r.raw) =>
              /\ q.hash = r.hash
              /\ (/\ q.key = r.key
                  /\ r.key \in DOMAIN batchIdem
                  /\ batchIdem[r.key].BodyHash = q.hash) => r.how = "replay"]_vars


\* ------------------------------------------------------------------------
\* Properties of the service calls
\* ------------------------------------------------------------------------
\* the Writer calls that store something when the call recorded as r runs
\* from the current state with a context that is never cancelled
PlannedWrites(r) ==
    IF r.op = "EnsureAccountsBatch"
    THEN Cardinality(DOMAIN EnsureAccountsBatch(accountsByID, r.userID,
                                [i \in 1..Len(r.input) |-> toAccountDomain(r.input[i])],
                                0).accts \ DOMAIN accountsByID)
    ELSE Cardinality(Reclassify(TheStore, accountsByID, r.userID, r.entryID, 1, << >>,
                                reclassifyLines(r.input), NewEntryID(DOMAIN entriesByID),
                                NewEntryID(DOMAIN entriesByID \cup
                                           {NewEntryID(DOMAIN entriesByID)})).created)

\* C28: once the context of an in-flight call is cancelled, the call makes no
\* further Writer call and returns the cancellation error, not a domain
\* error or success; a batch cancelled part-way writes no further items.
C28_CancelledCallStops ==
    [][\A r \in requests' :
          (/\ r.op \in {"EnsureAccountsBatch", "Reclassify"}
           /\ r.cancelAt > 0
           /\ PlannedWrites(r) >= r.cancelAt) =>
              /\ r.writes = r.cancelAt - 1
              /\ r.err = Canceled]_vars

\* C29: a Reclassify that returns an error has persisted no entry: the
\* original is not reversed and every account balance is as before the call.
C29_FailedReclassifyPersistsNothing ==
    [][\A r \in requests' :
          (r.op = "Reclassify" /\ r.err # "") =>
              UNCHANGED <<entriesByID, entryIndexByUser>>]_vars


\* C30: of two ReverseEntry or Reclassify calls for the same active entry
\* that run concurrently, at most one succeeds, and at most one reversal
\* entry for that original is persisted.
C30_ConcurrentReversalOnce ==
    \A r1, r2 \in requests :
        (/\ r1.id \in r2.during
         /\ r1.userID = r2.userID /\ r1.entryID = r2.entryID
         /\ r1.pc = "done" /\ r2.pc = "done") =>
            /\ ~(r1.err = "" /\ r2.err = "")
            /\ Cardinality(ReversalsOf(entriesByID, r1.entryID)) <= 1


\* ------------------------------------------------------------------------
\* Properties of the account calls in flight together
\* ------------------------------------------------------------------------
\* the stored accounts with the user, normalized path and currency of account
SamePathAccounts(account) ==
    {id \in DOMAIN accountsByID :
        /\ accountsByID[id].UserID = account.UserID
        /\ normalizedPathString(accountsByID[id]) = normalizedPathString(account)
        /\ ToUpper(accountsByID[id].Currency) = ToUpper(account.Currency)}

\* C31: of two Create calls for the same user, normalized path and currency
\* that run concurrently, at most one succeeds, and at most one account with
\* that user, path and currency exists afterwards.
C31_ConcurrentCreateOnce ==
    \A r1, r2 \in requests :
        (/\ r1.op = "Create" /\ r2.op = "Create"
         /\ r1.id \in r2.during
         /\ r1.account.UserID = r2.account.UserID
         /\ normalizedPathString(r1.account) = normalizedPathString(r2.account)
         /\ ToUpper(r1.account.Currency) = ToUpper(r2.account.Currency)
         /\ r1.pc = "done" /\ r2.pc = "done") =>
            /\ ~(r1.err = "" /\ r2.err = "")
            /\ Cardinality(SamePathAccounts(r1.account)) <= 1

\* C33: under any interleaving of EnsureOpeningBalanceAccount, Create and
\* batch-create calls for the same user and currency, at most one system
\* opening-balances account exists for that user and currency.
C33_OneOpeningBalancesAccount ==
    \A userID \in Users, currency \in KnownCurrencies :
        Cardinality(OpeningAccounts(accountsByID, userID, currency)) <= 1


\* C32: of two single-entry creates with the same user and the same
\* Idempotency-Key that run concurrently, at most one persists an entry, and
\* both callers receive that same entry.
C32_ConcurrentKeyedCreateOnce ==
    \A r1, r2 \in requests :
        (/\ r1.op = "postEntry" /\ r2.op = "postEntry"
         /\ r1.id \in r2.during
         /\ r1.body.UserID = r2.body.UserID /\ r1.key = r2.key
         /\ r1.pc = "done" /\ r2.pc = "done") =>
            /\ r1.entry = r2.entry
            /\ ~(r1.status = StatusCreated /\ r2.status = StatusCreated)


\* ------------------------------------------------------------------------
\* Properties of the trial balance
\* ------------------------------------------------------------------------
\* total of the units of the rows of nets in one currency
RECURSIVE UnitsIn(_, _, _)
UnitsIn(nets, accounts, currency) ==
    IF accounts = {} THEN 0
    ELSE LET a == CHOOSE x \in accounts : TRUE
         IN  (IF nets[a].Curr = currency THEN nets[a].Units ELSE 0)
                + UnitsIn(nets, accounts \ {a}, currency)

\* C34: after any sequence of successful create, reverse and reclassify
\* operations, and for every as_of, the net amounts TrialBalance reports for
\* a user's accounts sum to zero within each currency.
C34_TrialBalanceSumsToZero ==
    \A r \in requests :
        r.op = "trialBalance" =>
            \A currency \in KnownCurrencies :
                UnitsIn(r.nets, DOMAIN r.nets, currency) = 0

\* C37: TrialBalance omits every account whose net amount is zero, such as
\* an account touched only by an entry and its reversal: no row it returns
\* has a zero amount.
C37_TrialBalanceOmitsZero ==
    \A r \in requests :
        r.op = "trialBalance" => \A a \in DOMAIN r.nets : r.nets[a].Units # 0


\* ------------------------------------------------------------------------
\* Properties of ValidateEntry called on its own
\* ------------------------------------------------------------------------
\* the error of the first per-line check a line fails, "" when it passes all
LineError(line) ==
    IF line.AccountID = NilUUID THEN "account_id required"
    ELSE IF line.Amount.Units <= 0 THEN "amount must be > 0"
    ELSE IF line.Side \notin {SideDebit, SideCredit} THEN "side must be debit or credit"
    ELSE ""

\* the errors the first failing check of the specified order may report for
\* the entry (any failing line's error in the per-line pass); {""} when no
\* check fails. Debits and credits are compared as exact integers.
FirstFailing(accts, entry) ==
    LET n == Len(entry.Lines)
        ids == {entry.Lines[i].AccountID : i \in 1..n}
        lineErrs == {LineError(entry.Lines[i]) : i \in 1..n} \ {""}
    IN  IF entry.UserID = NilUUID THEN {"invalid"}
        ELSE IF entry.Currency = "" THEN {"invalid"}
        ELSE IF n < 2 THEN {"at least 2 lines"}
        ELSE IF lineErrs # {} THEN lineErrs
        ELSE IF SideTotal(entry.Lines, SideDebit, 1) # SideTotal(entry.Lines, SideCredit, 1)
        THEN {"sum(debits) must equal sum(credits)"}
        ELSE IF \E id \in ids : id \notin DOMAIN accts \/ accts[id].UserID # entry.UserID
        THEN {"unknown or unauthorized accounts"}
        ELSE IF \E id \in ids : accts[id].Currency # entry.Currency
        THEN {"account currency mismatch"}
        ELSE {""}

\* C36: ValidateEntry returns the error of the first failing check in the
\* order user_id, currency, line count, per-line account, amount and side,
\* debit/credit balance, account resolution, ownership and currency: an entry
\* with fewer than two lines (and a user and a currency) gets "at least 2
\* lines" whatever its lines are, and an unbalanced entry on an unknown
\* account gets the unbalanced error.
C36_FirstFailingCheck ==
    \A r \in requests :
        r.op = "ValidateEntry" => r.err \in FirstFailing(accountsByID, r.entry)

\* the same for the entries whose side totals fit the machine integer
FirstFailingCheckWithinRange ==
    \A r \in requests :
        (/\ r.op = "ValidateEntry"
         /\ SideTotal(r.entry.Lines, SideDebit, 1) <= MaxInt
         /\ SideTotal(r.entry.Lines, SideCredit, 1) <= MaxInt) =>
            r.err \in FirstFailing(accountsByID, r.entry)


\* ------------------------------------------------------------------------
\* Properties of Reclassify
\* ------------------------------------------------------------------------
\* the store as it was immediately before entry id was created (entries are
\* never changed or removed and identifiers are handed out in order)
StoreBefore(st, id) ==
    [entries |-> [e \in {x \in DOMAIN st.entries : x < id} |-> st.entries[e]],
     index |-> [u \in DOMAIN st.index |-> SelectSeq(st.index[u], LAMBDA k : k.ID < id)]]

\* net effect of the lines on the account, in minor units: debits less credits
RECURSIVE NetOf(_, _, _)
NetOf(lines, accountID, i) ==
    IF i > Len(lines) THEN 0
    ELSE (IF lines[i].AccountID # accountID THEN 0
          ELSE IF lines[i].Side = SideDebit THEN lines[i].Amount.Units
          ELSE 0 - lines[i].Amount.Units)
            + NetOf(lines, accountID, i + 1)

\* the step is a successful Reclassify of entry id, the entry created last:
\* it adds a reversal of id and one more entry
ReclassifiedLast(id) ==
    LET new == DOMAIN entriesByID' \ DOMAIN entriesByID
    IN  /\ id \in DOMAIN entriesByID
        /\ \A other \in DOMAIN entriesByID : other <= id
        /\ Cardinality(new) = 2
        /\ \E rid \in new : IsReversalOf(entriesByID'[rid], id)

\* the correcting entry of the step
Correcting(id) ==
    CHOOSE cid \in DOMAIN entriesByID' \ DOMAIN entriesByID :
        ~IsReversalOf(entriesByID'[cid], id)

\* C35: after a successful Reclassify of entry E with new lines N, exactly two
\* new entries exist, the reversal of E and the correcting entry holding N,
\* and every account's balance is its balance immediately before E was
\* created plus the net effect of N.
C35_ReclassifyReplacesEffect ==
    [][\A id \in DOMAIN entriesByID :
          ReclassifiedLast(id) =>
              LET userID == entriesByID[id].UserID
                  new == DOMAIN entriesByID' \ DOMAIN entriesByID
                  next == [entries |-> entriesByID', index |-> entryIndexByUser']
              IN  /\ \E rid, cid \in new :
                        /\ rid # cid
                        /\ entriesByID'[rid].Lines =
                              ReversalOf(entriesByID[id], rid, userID, 1).Lines
                        /\ ~IsReversalOf(entriesByID'[cid], id)
                  /\ \A a \in DOMAIN accountsByID :
                        accountsByID[a].UserID = userID =>
                            AccountBalance(next, userID, a).Units
                                = AccountBalance(StoreBefore(TheStore, id), userID, a).Units
                                    + NetOf(entriesByID'[Correcting(id)].Lines, a, 1)]_vars

\* the same for entries in USD, the currency reclassifyEntry builds amounts in
ReclassifyReplacesEffectUSD ==
    [][\A id \in DOMAIN entriesByID :
          (ReclassifiedLast(id) /\ entriesByID[id].Currency = "USD") =>
              LET userID == entriesByID[id].UserID
                  next == [entries |-> entriesByID', index |-> entryIndexByUser']
              IN  \A a \in DOMAIN accountsByID :
                      accountsByID[a].UserID = userID =>
                          AccountBalance(next, userID, a).Units
                              = AccountBalance(StoreBefore(TheStore, id), userID, a).Units
                                  + NetOf(entriesByID'[Correcting(id)].Lines, a, 1)]_vars


\* ------------------------------------------------------------------------
\* Properties of the batch transactions of the memory Store
\* ------------------------------------------------------------------------
\* of the items staged in tx, those among the given account and entry ids
VisibleOf(tx, accountIDs, entryIDs) ==
    (StagedAccountIDs(tx) \cap accountIDs) \cup (StagedEntryIDs(tx) \cap entryIDs)

\* C38: the items staged in a batch transaction are in the store, and are
\* seen by a read call, only once the transaction has committed, and then
\* all of them are; a transaction whose Commit returned the conflict error
\* has none of its items in the store.
C38_BatchTxAllOrNothing ==
    /\ \A tx \in Txs :
          IF tx.pc = "committed"
          THEN /\ StagedAccountIDs(tx) \subseteq DOMAIN accountsByID
               /\ StagedEntryIDs(tx) \subseteq DOMAIN entriesByID
               /\ \A id \in StagedEntryIDs(tx) :
                     \E i \in 1..Len(entryIndexByUser["u1"]) :
                         entryIndexByUser["u1"][i].ID = id
          ELSE VisibleOf(tx, DOMAIN accountsByID, DOMAIN entriesByID) = {}
    /\ \A r \in requests :
          r.op = "AccountsByUserID" =>
              \A tx \in r.txs :
                  IF tx.pc = "committed"
                  THEN StagedAccountIDs(tx) \subseteq r.seenAccounts
                  ELSE StagedAccountIDs(tx) \cap r.seenAccounts = {}
    /\ \A r \in requests :
          r.op = "EntriesByUserID" =>
              \A tx \in r.txs :
                  IF tx.pc = "committed"
                  THEN StagedEntryIDs(tx) \subseteq r.seenEntries
                  ELSE StagedEntryIDs(tx) \cap r.seenEntries = {}

\* a transaction has committed two accounts and an entry, another with a
\* staged account and a staged entry got the conflict error, and a read call
\* ran while a transaction with staged items was open
C38_Witness ==
    /\ \E tx \in Txs :
          tx.pc = "committed" /\ Len(tx.accounts) + Len(tx.entries) >= 2
          /\ Len(tx.entries) >= 1 /\ Len(tx.accounts) >= 1
    /\ \E tx \in Txs :
          tx.pc = "conflict" /\ Len(tx.accounts) = 2 /\ Len(tx.entries) >= 1
    /\ \E r \in requests :
          /\ r.op \in {"AccountsByUserID", "EntriesByUserID"}
          /\ \E tx \in r.txs : tx.pc = "open" /\ Len(tx.accounts) + Len(tx.entries) >= 2


\* ------------------------------------------------------------------------
\* Properties of the Idempotency-Key of the batch endpoints across callers
\* ------------------------------------------------------------------------
\* the responses stored for requests made on the given endpoint
StoredFor(endpoint) ==
    LET own == {k \in DOMAIN batchIdem :
                   \E r0 \in requests : /\ r0.endpoint = endpoint /\ r0.key = k
                                        /\ r0.hash = batchIdem[k].BodyHash}
    IN  [k \in own |-> batchIdem[k]]

\* C39: the outcome of a batch request does not depend on the requests made
\* earlier on the other batch endpoint (or by other users) with the same
\* Idempotency-Key: it is replayed, refused as an idempotency mismatch or
\* executed exactly as it would be had only the requests of its own endpoint
\* been stored.
C39_KeyScopedToEndpoint ==
    [][\A r \in Arrived :
          /\ r.how = lookupBatch(StoredFor(r.endpoint), r.key, r.hash)
          /\ r.resp = lookupResponse(StoredFor(r.endpoint), r.key, r.hash)]_vars

====
